---- MODULE Spec2Model ----
(***************************************************************************)
(* Model of nanobanana-py's generation orchestration                       *)
(* (src/src/nanobanana_py/image_generator.py): the fallback chain built by *)
(* the ImageGenerator constructor, one attempt's walk over that chain      *)
(* (_call_gemini_api), the per-attempt post-processing                     *)
(* (_generate_single_image / generate_step), the windowed dispatch with    *)
(* asyncio.gather and the two aggregation loops (generate_text_to_image,   *)
(* generate_story_sequence), and edit_image.                               *)
(*                                                                         *)
(* asyncio runs one coroutine at a time and switches only at an await, so  *)
(* the code between two awaits is one atomic action here.  The only awaits *)
(* are client.post (one per model tried) and asyncio.gather.               *)
(***************************************************************************)
EXTENDS Integers, Sequences, FiniteSets, TLC

(***************************************************************************)
(* Bounds of the model.                                                    *)
(***************************************************************************)
\* largest output_count (batch mode: prompts, story mode: steps) of a request
MaxCount == 3
\* largest number of backend calls one request can need (attempts * chain length)
MaxCalls == 4
\* longest list of models in NANOBANANA_FALLBACK_MODELS
MaxFallbacks == 3
\* longest request.styles and request.variations
MaxStyles == 2
MaxVariations == 2
\* calls of get_generator in one run of the server
MaxServerCalls == 3

(***************************************************************************)
(* Program constants.                                                      *)
(***************************************************************************)
\* min(max(1, request.parallel), 8)
MAX_PARALLEL == 8
\* len(request.reference_images) > 14
MAX_REFERENCE_IMAGES == 14
\* steps = request.output_count or 4
DEFAULT_STEPS == 4
\* len(text) > 1000
MIN_TEXT_LENGTH == 1000

\* Model identifiers: "flash25" is gemini-2.5-flash-image, "flash20exp" is
\* gemini-2.0-flash-exp-image-generation, "pro3" is gemini-3-pro-image-preview.
DEFAULT_MODEL == "flash25"
DEFAULT_FALLBACK_MODELS == <<"flash25", "flash20exp">>

Min(a, b) == IF a <= b THEN a ELSE b
Max(a, b) == IF a >= b THEN a ELSE b

Range(s) == {s[k] : k \in 1..Len(s)}

(***************************************************************************)
(* validate_authentication.  env: the value of each environment variable,  *)
(* "" when the variable is unset (os.getenv gives None) or empty.          *)
(***************************************************************************)
AUTH_VARIABLES ==
    << [env_var |-> "NANOBANANA_GEMINI_API_KEY", key_type |-> "GEMINI_API_KEY"],
       [env_var |-> "NANOBANANA_GOOGLE_API_KEY", key_type |-> "GOOGLE_API_KEY"],
       [env_var |-> "GEMINI_API_KEY", key_type |-> "GEMINI_API_KEY"],
       [env_var |-> "GOOGLE_API_KEY", key_type |-> "GOOGLE_API_KEY"] >>

\* AuthConfig(api_key, key_type), or the ValueError raised instead
AuthConfig(api_key, key_type) == [raised |-> FALSE, api_key |-> api_key, key_type |-> key_type]
NoValidApiKey == [raised |-> TRUE, api_key |-> "", key_type |-> ""]

\* the for loop over the (env_var, key_type) pairs, from pair k on
RECURSIVE AuthScan(_, _, _)
AuthScan(env, pairs, k) ==
    IF k > Len(pairs) THEN NoValidApiKey
    ELSE IF env[pairs[k].env_var] # ""
         THEN AuthConfig(env[pairs[k].env_var], pairs[k].key_type)
    ELSE AuthScan(env, pairs, k + 1)

\* (mutant) the pairs are looked at in the reverse order
ValidateAuthenticationReversed(env) ==
    AuthScan(env, [k \in 1..Len(AUTH_VARIABLES) |->
                    AUTH_VARIABLES[Len(AUTH_VARIABLES) + 1 - k]], 1)

ValidateAuthentication(env) == AuthScan(env, AUTH_VARIABLES, 1)

(***************************************************************************)
(* get_output_directory (file_handler.py).  A path is the string of it.    *)
(***************************************************************************)
\* the path returned: NANOBANANA_OUTPUT_DIR when set and not empty, otherwise
\* Path.cwd() / "nanobanana-output"
GetOutputDirectory(output_dir, cwd) ==
    IF output_dir # "" THEN output_dir ELSE cwd \o "/nanobanana-output"

(***************************************************************************)
(* GenerateImageArgs (types.py): a pydantic BaseModel with the default     *)
(* configuration, under which a keyword that names no field is ignored.    *)
(* kwargs: the keywords of the constructor call, as a function.            *)
(***************************************************************************)
\* the fields that have a default, with it (prompt is required; files,
\* filename, styles, variations and seed default to None)
GenerateImageArgsDefaults ==
    [output_count |-> 1, format |-> "separate", preview |-> FALSE, resolution |-> "1K"]

\* output_count: int = Field(default=1, ge=1, le=8)
OutputCountValid(n) == n >= 1 /\ n <= 8

\* GenerateImageArgs(prompt="test", **kwargs): the model built, or the
\* ValidationError raised instead
GenerateImageArgs(kwargs) ==
    IF "output_count" \in DOMAIN kwargs /\ ~OutputCountValid(kwargs["output_count"])
    THEN [raised |-> TRUE, args |-> <<>>]
    ELSE [raised |-> FALSE,
          args |-> [f \in DOMAIN GenerateImageArgsDefaults |->
                      IF f \in DOMAIN kwargs THEN kwargs[f]
                      ELSE GenerateImageArgsDefaults[f]]]

(***************************************************************************)
(* ImageGenerator.__init__: the fallback chain.                            *)
(***************************************************************************)
\* list.remove(x): drops the first occurrence of x only
ListRemove(s, x) ==
    LET i == CHOOSE k \in 1..Len(s) : s[k] = x /\ \A j \in 1..(k - 1) : s[j] # x
    IN  SubSeq(s, 1, i - 1) \o SubSeq(s, i + 1, Len(s))

\* (mutant) the primary model is added when absent, and never moved
FallbackModelsNoPromotion(model_name, fallback_env) ==
    LET base == IF fallback_env.set THEN fallback_env.models
                ELSE DEFAULT_FALLBACK_MODELS
    IN  IF model_name \notin Range(base) THEN <<model_name>> \o base ELSE base

\* fallback_env: [set |-> the variable holds a non-empty string,
\*                models |-> its comma-separated, stripped, non-empty items]
FallbackModels(model_name, fallback_env) ==
    LET base == IF fallback_env.set THEN fallback_env.models
                ELSE DEFAULT_FALLBACK_MODELS
    IN  IF model_name \notin Range(base) THEN <<model_name>> \o base
        ELSE IF base[1] # model_name
             THEN <<model_name>> \o ListRemove(base, model_name)
             ELSE base

(***************************************************************************)
(* Backend responses.  kind: "transport" (httpx.RequestError), "timeout"   *)
(* (httpx.TimeoutException) or "http"; for "http": the status code,        *)
(* whether the body parses as JSON, the number of candidates and the parts *)
(* of the first candidate.  A part: inline is "none" (no inlineData key),  *)
(* "empty" (inlineData without data) or the mimeType of an inlineData with  *)
(* data; text is the text field (NoText: no text key, or the empty string). *)
(*                                                                         *)
(* A text is its run-length encoding: a sequence of runs of n >= 1 equal   *)
(* characters, a character being "A" (a letter, a digit, "+" or "/"), "="  *)
(* "\n" or "!" (anything else).                                            *)
(***************************************************************************)
Run(ch, n) == [ch |-> ch, n |-> n]
NoText == <<>>
\* a sentence, and 1500 characters of base64
PlainText == <<Run("A", 4), Run("!", 1), Run("A", 5), Run("!", 1)>>
LongBase64 == <<Run("A", 1500)>>

RECURSIVE TextLen(_)
TextLen(text) == IF text = <<>> THEN 0 ELSE Head(text).n + TextLen(Tail(text))

InlinePart(fmt) == [inline |-> fmt, text |-> NoText]
TextPart(t) == [inline |-> "none", text |-> t]

Http(status, json, cands, parts) ==
    [kind |-> "http", status |-> status, json |-> json, cands |-> cands,
     parts |-> parts]
NetError(kind) ==
    [kind |-> kind, status |-> 0, json |-> FALSE, cands |-> 0, parts |-> <<>>]

RespTransport == NetError("transport")
RespTimeout == NetError("timeout")
RespApiError == Http(500, TRUE, 0, <<>>)
RespGatewayError == Http(502, FALSE, 0, <<>>)
RespGarbled == Http(200, FALSE, 0, <<>>)
RespNoCandidates == Http(200, TRUE, 0, <<>>)
RespTextOnly == Http(200, TRUE, 1, <<TextPart(PlainText)>>)
RespJpeg == Http(200, TRUE, 1, <<InlinePart("image/jpeg")>>)
RespPng == Http(200, TRUE, 1, <<InlinePart("image/png")>>)
RespEmptyInline == Http(200, TRUE, 1, <<InlinePart("empty")>>)
RespTextThenImage == Http(200, TRUE, 1, <<TextPart(LongBase64), InlinePart("image/png")>>)

\* every response shape the model knows
AllResponses ==
    {RespTransport, RespTimeout, RespApiError, RespGatewayError, RespGarbled,
     RespNoCandidates, RespTextOnly, RespJpeg, RespPng, RespEmptyInline,
     RespTextThenImage}
\* one response per way an attempt can go on, stop or break
CoreResponses == {RespTransport, RespGatewayError, RespJpeg, RespEmptyInline}

(***************************************************************************)
(* Errors: the kind of failure and the chain position (1-based) of the     *)
(* model whose call produced it; wrapped marks the RuntimeError "All       *)
(* models failed. Last error: ..." raised around the last recorded error.  *)
(* Two errors of the same kind from different models may print the same    *)
(* message; the position keeps them apart here.                            *)
(***************************************************************************)
Err(kind, at) == [kind |-> kind, at |-> at, wrapped |-> FALSE]
NoError == Err("none", 0)
AllModelsFailed(last_error) == [last_error EXCEPT !.wrapped = TRUE]

(***************************************************************************)
(* server.py: get_generator and the two globals it keeps.  env: the        *)
(* credential variables (auth) and NANOBANANA_MODEL (model).  An instance  *)
(* of ImageGenerator is told from another by id, the number of the         *)
(* construction that made it; NoGenerator is None, and "" is no error.     *)
(* created counts the constructions, calls the calls of get_generator;     *)
(* last is what the latest call did.                                       *)
(***************************************************************************)
NoCredentials == [k \in {AUTH_VARIABLES[n].env_var : n \in 1..Len(AUTH_VARIABLES)} |-> ""]

NoGenerator ==
    [id |-> 0, api_key |-> "", key_type |-> "", model_name |-> "", fallback_models |-> <<>>]

\* ImageGenerator(auth_config) in the environment env
ImageGeneratorInstance(id, auth_config, model_name) ==
    [id |-> id, api_key |-> auth_config.api_key, key_type |-> auth_config.key_type,
     model_name |-> model_name,
     fallback_models |-> FallbackModels(model_name, [set |-> FALSE, models |-> <<>>])]

ServerStart(auth, model_name) ==
    [env |-> [auth |-> auth, model |-> model_name],
     generator |-> NoGenerator, init_error |-> "", created |-> 0, calls |-> 0,
     last |-> [raised |-> FALSE, error |-> "", generator |-> NoGenerator]]

\* (mutant) _init_error is not looked at: a failed initialisation is tried
\* again on the next call
GetGeneratorRetry(srv) ==
    IF srv.generator = NoGenerator
    THEN LET auth_config == ValidateAuthentication(srv.env.auth)
         IN  IF auth_config.raised
             THEN [srv EXCEPT !.init_error = "ERROR: No valid API key found",
                              !.calls = @ + 1,
                              !.last = [raised |-> TRUE,
                                        error |-> "ERROR: No valid API key found",
                                        generator |-> NoGenerator]]
             ELSE LET made == ImageGeneratorInstance(srv.created + 1, auth_config,
                                                     srv.env.model)
                  IN  [srv EXCEPT !.generator = made, !.created = @ + 1, !.calls = @ + 1,
                                  !.last = [raised |-> FALSE, error |-> "",
                                            generator |-> made]]
    ELSE [srv EXCEPT !.calls = @ + 1,
                     !.last = [raised |-> FALSE, error |-> "", generator |-> srv.generator]]

\* get_generator(): the server after the call
GetGenerator(srv) ==
    IF srv.init_error # ""
    THEN [srv EXCEPT !.calls = @ + 1,
                     !.last = [raised |-> TRUE, error |-> srv.init_error,
                               generator |-> NoGenerator]]
    ELSE IF srv.generator = NoGenerator
    THEN LET auth_config == ValidateAuthentication(srv.env.auth)
         IN  IF auth_config.raised
             THEN [srv EXCEPT !.init_error = "ERROR: No valid API key found",
                              !.calls = @ + 1,
                              !.last = [raised |-> TRUE,
                                        error |-> "ERROR: No valid API key found",
                                        generator |-> NoGenerator]]
             ELSE LET made == ImageGeneratorInstance(srv.created + 1, auth_config,
                                                     srv.env.model)
                  IN  [srv EXCEPT !.generator = made, !.created = @ + 1, !.calls = @ + 1,
                                  !.last = [raised |-> FALSE, error |-> "",
                                            generator |-> made]]
    ELSE [srv EXCEPT !.calls = @ + 1,
                     !.last = [raised |-> FALSE, error |-> "", generator |-> srv.generator]]

(***************************************************************************)
(* _build_request_body: the generationConfig of the request body.  An      *)
(* option that is not given is "" (resolution, aspect_ratio: None) or <<>> *)
(* (seed: None; <<n>> is the seed n).  A key the body does not carry is    *)
(* not in the domain.                                                      *)
(***************************************************************************)
\* is_gemini3 = "gemini-3" in model_name: of the identifiers above, the one
\* of "pro3" holds it
IsGemini3(model_name) == model_name = "pro3"

Key(name, present, value) == IF present THEN name :> value ELSE <<>>

\* (mutant) imageSize is sent to every model
BuildRequestBodyAlwaysSize(model_name, resolution, aspect_ratio, seed) ==
    LET image_config == Key("aspectRatio", aspect_ratio # "", aspect_ratio)
                        @@ Key("imageSize", resolution # "", resolution)
    IN  [generationConfig |->
            Key("responseModalities", TRUE, <<"Image">>)
            @@ Key("imageConfig", DOMAIN image_config # {}, image_config)
            @@ Key("seed", seed # <<>>, IF seed # <<>> THEN seed[1] ELSE 0)]

BuildRequestBody(model_name, resolution, aspect_ratio, seed) ==
    LET is_gemini3 == IsGemini3(model_name)
        image_config == Key("aspectRatio", aspect_ratio # "", aspect_ratio)
                        @@ Key("imageSize", is_gemini3 /\ resolution # "", resolution)
    IN  [generationConfig |->
            Key("responseModalities", TRUE, <<"Image">>)
            @@ Key("imageConfig", DOMAIN image_config # {}, image_config)
            @@ Key("seed", seed # <<>>, IF seed # <<>> THEN seed[1] ELSE 0)]

(***************************************************************************)
(* _call_gemini_api: what one pass of the loop over self.fallback_models   *)
(* does with the response to its call.                                     *)
(***************************************************************************)
\* any("inlineData" in part for part in parts) on the first candidate
HasImage(resp) ==
    /\ resp.cands > 0
    /\ \E k \in 1..Len(resp.parts) : resp.parts[k].inline # "none"

\* used_fallback = model_name != primary_model
UsedFallback(model_name, primary_model) == model_name # primary_model

\* (mutant) the first error recorded is kept
RecordErrorKeepFirst(last_error, err) == IF last_error = NoError THEN err ELSE last_error

\* last_error = ... : every recording overwrites the one before
RecordError(last_error, err) == err

\* (mutant) a timeout is not caught and leaves the loop
ClassifyResponseTimeoutFatal(resp, pos) ==
    CASE resp.kind = "timeout" -> [next |-> "raise", error |-> Err("timeout", pos)]
      [] resp.kind = "transport" -> [next |-> "continue", error |-> Err("transport", pos)]
      [] resp.kind = "http" /\ ~resp.json -> [next |-> "raise", error |-> Err("json_decode", pos)]
      [] resp.kind = "http" /\ resp.json /\ resp.status # 200 ->
            [next |-> "continue", error |-> Err("api_error", pos)]
      [] resp.kind = "http" /\ resp.json /\ resp.status = 200 /\ HasImage(resp) ->
            [next |-> "return", error |-> NoError]
      [] OTHER -> [next |-> "continue", error |-> Err("no_image_data", pos)]

\* The try block of one pass: "return" (an image was seen), "continue" (the
\* error is recorded and the next model is tried) or "raise" (response.json()
\* raises json.JSONDecodeError, which neither except clause catches).
ClassifyResponse(resp, pos) ==
    CASE resp.kind = "timeout" -> [next |-> "continue", error |-> Err("timeout", pos)]
      [] resp.kind = "transport" -> [next |-> "continue", error |-> Err("transport", pos)]
      [] resp.kind = "http" /\ ~resp.json -> [next |-> "raise", error |-> Err("json_decode", pos)]
      [] resp.kind = "http" /\ resp.json /\ resp.status # 200 ->
            [next |-> "continue", error |-> Err("api_error", pos)]
      [] resp.kind = "http" /\ resp.json /\ resp.status = 200 /\ HasImage(resp) ->
            [next |-> "return", error |-> NoError]
      [] OTHER -> [next |-> "continue", error |-> Err("no_image_data", pos)]

\* The state of one _call_gemini_api coroutine: state is "waiting" (a call to
\* chain[pos] is outstanding), "returned" or "raised".
CallWaiting(pos, last_error) ==
    [state |-> "waiting", pos |-> pos, last_error |-> last_error,
     model_used |-> "", used_fallback |-> FALSE, error |-> NoError]

\* (mutant) a failed call is repeated once on the same model before the
\* next model is tried
CallStepRetry(chain, call, resp) ==
    LET c == ClassifyResponse(resp, call.pos)
        recorded == RecordError(call.last_error, c.error)
    IN  CASE c.next = "return" ->
               [call EXCEPT !.state = "returned",
                            !.model_used = chain[call.pos],
                            !.used_fallback = UsedFallback(chain[call.pos], chain[1])]
          [] c.next = "raise" ->
               [call EXCEPT !.state = "raised", !.error = c.error]
          [] c.next = "continue" /\ call.last_error.at # call.pos ->
               [call EXCEPT !.last_error = recorded]
          [] c.next = "continue" /\ call.pos < Len(chain) ->
               [call EXCEPT !.pos = call.pos + 1, !.last_error = recorded]
          [] OTHER ->
               [call EXCEPT !.state = "raised", !.last_error = recorded,
                            !.error = AllModelsFailed(recorded)]

\* The response to the outstanding call arrives: the rest of this pass and,
\* on "continue", the start of the next one or the raise after the loop.
CallStep(chain, call, resp) ==
    LET c == ClassifyResponse(resp, call.pos)
        recorded == RecordError(call.last_error, c.error)
    IN  CASE c.next = "return" ->
               [call EXCEPT !.state = "returned",
                            !.model_used = chain[call.pos],
                            !.used_fallback = UsedFallback(chain[call.pos], chain[1])]
          [] c.next = "raise" ->
               [call EXCEPT !.state = "raised", !.error = c.error]
          [] c.next = "continue" /\ call.pos < Len(chain) ->
               [call EXCEPT !.pos = call.pos + 1, !.last_error = recorded]
          [] OTHER ->
               [call EXCEPT !.state = "raised", !.last_error = recorded,
                            !.error = AllModelsFailed(recorded)]

(***************************************************************************)
(* _extract_image_from_response                                            *)
(***************************************************************************)
\* re.match(r"^[A-Za-z0-9+/]*={0,2}$", data) from run k on, pads "=" seen so
\* far: "$" matches at the end of the string and before a newline that ends it
RECURSIVE MatchBase64(_, _, _)
MatchBase64(data, k, pads) ==
    IF k > Len(data) THEN TRUE
    ELSE CASE data[k].ch = "A" -> pads = 0 /\ MatchBase64(data, k + 1, 0)
           [] data[k].ch = "=" -> pads + data[k].n <= 2
                                  /\ MatchBase64(data, k + 1, pads + data[k].n)
           [] data[k].ch = "\n" -> data[k].n = 1 /\ k = Len(data)
           [] OTHER -> FALSE

\* _is_valid_base64
IsValidBase64(data) ==
    IF data = <<>> THEN FALSE ELSE MatchBase64(data, 1, 0)

\* base64.b64decode(s) returns (TRUE) or raises binascii.Error (FALSE).  Not
\* in strict mode: characters outside the alphabet are skipped, a "=" counts
\* only where it completes a group of four, and the data must end on a group.
RECURSIVE B64Decodes(_, _, _, _)
B64Decodes(text, k, quad_pos, pads) ==
    IF k > Len(text) THEN quad_pos = 0
    ELSE CASE text[k].ch = "A" -> B64Decodes(text, k + 1, (quad_pos + text[k].n) % 4, 0)
           [] text[k].ch = "=" ->
                IF quad_pos >= 2 /\ quad_pos + pads + text[k].n >= 4 THEN TRUE
                ELSE B64Decodes(text, k + 1, quad_pos,
                                IF quad_pos >= 2 THEN pads + text[k].n ELSE pads)
           [] OTHER -> B64Decodes(text, k + 1, quad_pos, pads)

\* found: a (bytes, mime_type) pair is returned; raised: base64.b64decode
\* raised on the text; neither: None is returned
Extracted(found, mime, via, raised) ==
    [found |-> found, mime |-> mime, via |-> via, raised |-> raised]
NotFound == Extracted(FALSE, "", "none", FALSE)

\* for part in parts: ... (the data of an inlineData is not modelled: that
\* b64decode raises on it is one of the Faults below)
RECURSIVE ExtractFromParts(_, _)
ExtractFromParts(parts, k) ==
    IF k > Len(parts) THEN NotFound
    ELSE IF parts[k].inline \notin {"none", "empty"}
         THEN Extracted(TRUE, parts[k].inline, "inline", FALSE)
    ELSE IF TextLen(parts[k].text) > MIN_TEXT_LENGTH /\ IsValidBase64(parts[k].text)
         THEN IF B64Decodes(parts[k].text, 1, 0, 0)
              THEN Extracted(TRUE, "image/jpeg", "text", FALSE)
              ELSE Extracted(FALSE, "", "text", TRUE)
    ELSE ExtractFromParts(parts, k + 1)

ExtractImage(resp) ==
    IF resp.cands = 0 THEN NotFound ELSE ExtractFromParts(resp.parts, 1)

(***************************************************************************)
(* _build_batch_prompts                                                    *)
(***************************************************************************)
variation_map(variation) ==
    CASE variation = "lighting" -> <<"dramatic lighting", "soft lighting">>
      [] variation = "angle" -> <<"from above", "close-up view">>
      [] variation = "color-palette" -> <<"warm color palette", "cool color palette">>
      [] variation = "composition" -> <<"centered composition", "rule of thirds composition">>
      [] variation = "mood" -> <<"cheerful mood", "dramatic mood">>
      [] variation = "season" -> <<"in spring", "in winter">>
      [] variation = "time-of-day" -> <<"at sunrise", "at sunset">>
      [] OTHER -> <<>>

RECURSIVE Flatten(_)
Flatten(ss) == IF ss = <<>> THEN <<>> ELSE Head(ss) \o Flatten(Tail(ss))

\* s[:n] of a Python list, n of either sign
PySlicePrefix(s, n) ==
    IF n >= 0 THEN SubSeq(s, 1, Min(n, Len(s)))
    ELSE SubSeq(s, 1, Max(Len(s) + n, 0))

\* (mutant) the word "style" is not appended
StylePromptsNoSuffix(base_prompt, styles) ==
    [i \in 1..Len(styles) |-> base_prompt \o ", " \o styles[i]]

\* for style in request.styles: prompts.append(f"{base_prompt}, {style} style")
StylePrompts(base_prompt, styles) ==
    [i \in 1..Len(styles) |-> base_prompt \o ", " \o styles[i] \o " style"]

\* the three nested loops over base_prompts, request.variations and the
\* phrasings of each variation that is a key of variation_map
VariationPrompts(base_prompts, variations) ==
    Flatten([i \in 1..Len(base_prompts) |->
        Flatten([j \in 1..Len(variations) |->
            [k \in 1..Len(variation_map(variations[j])) |->
                base_prompts[i] \o ", " \o variation_map(variations[j])[k]]])])

\* (mutant) the variation prompts are added to the styled prompts
ExpandPromptsCompose(request) ==
    LET styled == StylePrompts(request.prompt, request.styles)
        base_prompts == IF styled # <<>> THEN styled ELSE <<request.prompt>>
    IN  styled \o VariationPrompts(base_prompts, request.variations)

\* prompts after the styles and the variations have been handled
ExpandPrompts(request) ==
    LET styled == StylePrompts(request.prompt, request.styles)
        base_prompts == IF styled # <<>> THEN styled ELSE <<request.prompt>>
        variation_prompts == IF request.variations # <<>>
                             THEN VariationPrompts(base_prompts, request.variations)
                             ELSE <<>>
    IN  IF variation_prompts # <<>> THEN variation_prompts ELSE styled

\* (mutant) the base prompt is not repeated
FillPromptsNever(prompts, base_prompt, output_count) == prompts

\* if not prompts and request.output_count > 1:
\*     prompts = [base_prompt] * request.output_count
FillPrompts(prompts, base_prompt, output_count) ==
    IF prompts = <<>> /\ output_count > 1
    THEN [i \in 1..output_count |-> base_prompt]
    ELSE prompts

\* (mutant) nothing is cut off
LimitPromptsNever(prompts, output_count) == prompts

\* if request.output_count and len(prompts) > request.output_count:
\*     prompts = prompts[: request.output_count]
LimitPrompts(prompts, output_count) ==
    IF output_count # 0 /\ Len(prompts) > output_count
    THEN PySlicePrefix(prompts, output_count)
    ELSE prompts

BuildBatchPrompts(request) ==
    LET base_prompt == request.prompt
        filled == FillPrompts(ExpandPrompts(request), base_prompt, request.output_count)
        limited == LimitPrompts(filled, request.output_count)
    IN  IF limited # <<>> THEN limited ELSE <<base_prompt>>

(***************************************************************************)
(* file_handler.generate_filename and its two callers                      *)
(*                                                                         *)
(* A text is the sequence of its characters; a file name is a string.      *)
(***************************************************************************)
\* "".join(text)
RECURSIVE Join(_)
Join(text) == IF text = <<>> THEN "" ELSE Head(text) \o Join(Tail(text))

\* clean_prompt = re.sub(r"[^\w\s]", "", prompt)
\* clean_prompt = re.sub(r"\s+", "_", clean_prompt.strip())
\* clean_prompt = clean_prompt[:50]
CleanPrompt(text) ==
    LET word == {"a", "b", "c", "d", "e", "f", "g", "h", "i", "j", "k", "l", "m", "n",
                 "o", "p", "q", "r", "s", "t", "u", "v", "w", "x", "y", "z",
                 "0", "1", "2", "3", "4", "5", "6", "7", "8", "9", "_"}
        space == {" ", "\t", "\n"}
        kept == SelectSeq(text, LAMBDA c : c \in word \/ c \in space)
        solid == {p \in 1..Len(kept) : kept[p] \notin space}
        stripped == IF solid = {} THEN <<>>
                    ELSE SubSeq(kept, CHOOSE p \in solid : \A q \in solid : p <= q,
                                      CHOOSE p \in solid : \A q \in solid : q <= p)
        joined[p \in 0..Len(stripped)] ==
            IF p = 0 THEN <<>>
            ELSE IF stripped[p] \notin space THEN Append(joined[p - 1], stripped[p])
            ELSE IF p > 1 /\ stripped[p - 1] \in space THEN joined[p - 1]
            ELSE Append(joined[p - 1], "_")
    IN  PySlicePrefix(joined[Len(stripped)], 50)

\* hashlib.md5(prompt.encode()).hexdigest()[:6], for the prompts of the
\* requests below
Md5Prefix(text) ==
   (
    ("sunset 4513465" :> "09fb67") @@
    ("sunset 4513465, ink style" :> "1161e0") @@
    ("sunset 4513465, oil style" :> "9795cb") @@
    ("story_step1_sunset 4513465" :> "f5fa08") @@
    ("story_step2_sunset 4513465" :> "8e6c81") @@
    ("story_step3_sunset 4513465" :> "5f8155") @@
    ("story_step4_sunset 4513465" :> "49cb94") @@
    ("story_step5_sunset 4513465" :> "6dfccc") @@
    ("story_step6_sunset 4513465" :> "3f6ba3") @@
    ("story_step7_sunset 4513465" :> "4c2f32") @@
    ("story_step8_sunset 4513465" :> "2bde5a") @@
    ("aaaaaaaaaaaaaaaaaaaaaaaaaaaaaaaaaaaaaaaaaaaaa_step1_sunset 4513465" :> "1f9061") @@
    ("aaaaaaaaaaaaaaaaaaaaaaaaaaaaaaaaaaaaaaaaaaaaa_step2_sunset 4513465" :> "1f9061") @@
    ("aaaaaaaaaaaaaaaaaaaaaaaaaaaaaaaaaaaaaaaaaaaaa_step3_sunset 4513465" :> "47e922") @@
    ("aaaaaaaaaaaaaaaaaaaaaaaaaaaaaaaaaaaaaaaaaaaaa_step4_sunset 4513465" :> "d22c3a") @@
    ("aaaaaaaaaaaaaaaaaaaaaaaaaaaaaaaaaaaaaaaaaaaaa_step5_sunset 4513465" :> "0f0878") @@
    ("aaaaaaaaaaaaaaaaaaaaaaaaaaaaaaaaaaaaaaaaaaaaa_step6_sunset 4513465" :> "d81943") @@
    ("aaaaaaaaaaaaaaaaaaaaaaaaaaaaaaaaaaaaaaaaaaaaa_step7_sunset 4513465" :> "e224b8") @@
    ("aaaaaaaaaaaaaaaaaaaaaaaaaaaaaaaaaaaaaaaaaaaaa_step8_sunset 4513465" :> "eefabe") @@
    ("a cat!" :> "16ee20") @@
    ("a cat!, ink style" :> "4e1ce5") @@
    ("a cat!, oil style" :> "823d10") @@
    ("story_step1_a cat!" :> "bde3a6") @@
    ("story_step2_a cat!" :> "28f617") @@
    ("story_step3_a cat!" :> "826c6d") @@
    ("story_step4_a cat!" :> "49e268") @@
    ("story_step5_a cat!" :> "c361af") @@
    ("story_step6_a cat!" :> "71acbf") @@
    ("story_step7_a cat!" :> "76e2b3") @@
    ("story_step8_a cat!" :> "9780b9") @@
    ("aaaaaaaaaaaaaaaaaaaaaaaaaaaaaaaaaaaaaaaaaaaaa_step1_a cat!" :> "7c0acb") @@
    ("aaaaaaaaaaaaaaaaaaaaaaaaaaaaaaaaaaaaaaaaaaaaa_step2_a cat!" :> "681116") @@
    ("aaaaaaaaaaaaaaaaaaaaaaaaaaaaaaaaaaaaaaaaaaaaa_step3_a cat!" :> "0c9a1c") @@
    ("aaaaaaaaaaaaaaaaaaaaaaaaaaaaaaaaaaaaaaaaaaaaa_step4_a cat!" :> "d5308c") @@
    ("aaaaaaaaaaaaaaaaaaaaaaaaaaaaaaaaaaaaaaaaaaaaa_step5_a cat!" :> "cb9b38") @@
    ("aaaaaaaaaaaaaaaaaaaaaaaaaaaaaaaaaaaaaaaaaaaaa_step6_a cat!" :> "fd60a4") @@
    ("aaaaaaaaaaaaaaaaaaaaaaaaaaaaaaaaaaaaaaaaaaaaa_step7_a cat!" :> "5a673e") @@
    ("aaaaaaaaaaaaaaaaaaaaaaaaaaaaaaaaaaaaaaaaaaaaa_step8_a cat!" :> "3244d5")
   )[Join(text)]

\* datetime.now() is the argument timestamp, already formatted; None and ""
\* are <<>>
GenerateFilename(prompt, file_format, index, custom_filename, force_suffix, suffix, timestamp) ==
    LET ext == IF file_format = "jpeg" THEN "jpg" ELSE file_format
        upper == <<"P", "N", "G", "J", "E">>
        lower == <<"p", "n", "g", "j", "e">>
        Lower(c) == IF \E k \in 1..Len(upper) : upper[k] = c
                    THEN lower[CHOOSE k \in 1..Len(upper) : upper[k] = c]
                    ELSE c
        folded == [k \in 1..Len(custom_filename) |-> Lower(custom_filename[k])]
        EndsWith(s, tail) ==
            Len(s) >= Len(tail) /\ SubSeq(s, Len(s) - Len(tail) + 1, Len(s)) = tail
        extensions == {<<".", "p", "n", "g">>, <<".", "j", "p", "g">>,
                       <<".", "j", "p", "e", "g">>}
        \* "$" also matches before a newline that ends the name
        body == IF folded # <<>> /\ folded[Len(folded)] = "\n"
                THEN SubSeq(folded, 1, Len(folded) - 1) ELSE folded
        at_end == {e \in extensions : EndsWith(folded, e)}
        before_newline == {e \in extensions : body # folded /\ EndsWith(body, e)}
        cut == IF at_end # {} THEN Len(CHOOSE e \in at_end : TRUE)
               ELSE IF before_newline # {} THEN Len(CHOOSE e \in before_newline : TRUE)
               ELSE 0
        base_name ==
            IF at_end # {} \/ before_newline = {}
            THEN SubSeq(custom_filename, 1, Len(custom_filename) - cut)
            ELSE SubSeq(custom_filename, 1, Len(custom_filename) - cut - 1) \o <<"\n">>
        clean_prompt == CleanPrompt(prompt)
        prompt_hash == Md5Prefix(prompt)
    IN  IF custom_filename # <<>>
        THEN IF suffix # <<>>
             THEN Join(base_name) \o "_" \o Join(suffix) \o "." \o ext
             ELSE IF force_suffix \/ index > 0
             THEN Join(base_name) \o "_" \o ToString(index + 1) \o "." \o ext
             ELSE Join(base_name) \o "." \o ext
        ELSE IF index > 0
        THEN Join(clean_prompt) \o "_" \o timestamp \o "_" \o prompt_hash \o "_"
                 \o ToString(index + 1) \o "." \o ext
        ELSE Join(clean_prompt) \o "_" \o timestamp \o "_" \o prompt_hash \o "." \o ext

\* _generate_single_image's call, of a request without filename_suffixes
SingleImageFilename(request, prompt, index, force_suffix, timestamp) ==
    GenerateFilename(IF request.styles = <<>> /\ request.variations = <<>>
                     THEN request.prompt ELSE prompt,
                     request.file_format, index, request.filename, force_suffix, <<>>,
                     timestamp)

\* generate_step's call
StepFilename(request, story_type, step_index, force_suffix, timestamp) ==
    LET digit == <<"0", "1", "2", "3", "4", "5", "6", "7", "8", "9">>
        RECURSIVE Decimal(_)
        Decimal(n) == IF n < 10 THEN <<digit[n + 1]>>
                      ELSE Decimal(n \div 10) \o <<digit[(n % 10) + 1]>>
        step_number == step_index + 1
    IN  GenerateFilename(story_type \o <<"_", "s", "t", "e", "p">> \o Decimal(step_number)
                             \o <<"_">> \o request.prompt,
                         request.file_format,
                         IF request.filename # <<>> THEN step_index ELSE 0,
                         request.filename, force_suffix, <<>>, timestamp)

(***************************************************************************)
(* What one attempt hands back.  raised: an exception instead of a dict.   *)
(* index is the "index" key of the dict (NoIndex: the dict has none).      *)
(***************************************************************************)
NoIndex == -1
NoPath == [attempt |-> -1]
\* str(output_path / filename): the file written by attempt index
FilePath(index) == [attempt |-> index]

Outcome(raised, success, file_path, model_used, used_fallback, error, index) ==
    [raised |-> raised, success |-> success, file_path |-> file_path,
     model_used |-> model_used, used_fallback |-> used_fallback,
     error |-> error, index |-> index]
NoResult == Outcome(FALSE, FALSE, NoPath, "", FALSE, NoError, NoIndex)
Raised(error) == Outcome(TRUE, FALSE, NoPath, "", FALSE, error, NoIndex)

\* source_format = "png" if "png" in mime_type else "jpeg"
SourceFormat(mime_type) == IF mime_type = "image/png" THEN "png" ELSE "jpeg"

\* the bytes extracted from the response: what they encode and how many times
\* they were encoded again since
ImageData(img) == [encoded_as |-> SourceFormat(img.mime), passes |-> 0]

\* _convert_image_format
ConvertImageFormat(buffer, source_format, target_format) ==
    IF source_format = target_format THEN buffer
    ELSE [encoded_as |-> target_format, passes |-> buffer.passes + 1]

\* (mutant) the image is decoded and saved anew whatever its format
SavedAlwaysReencoded(img, target_format) ==
    [encoded_as |-> target_format, passes |-> ImageData(img).passes + 1]

\* image_data as handed to save_image_buffer
Saved(img, target_format) ==
    IF SourceFormat(img.mime) # target_format
    THEN ConvertImageFormat(ImageData(img), SourceFormat(img.mime), target_format)
    ELSE ImageData(img)

\* The faults of the machine the code runs on: base64.b64decode raising on the
\* image data, Image.open raising on the decoded bytes, write_bytes raising.
Faults == {"none", "decode", "convert", "save"}

\* The try block after _call_gemini_api has returned: extract, convert, name
\* and save.  carry_index: the success dict carries "index" (generate_step).
AfterCall(call, resp, file_format, index, carry_index, fault) ==
    LET img == ExtractImage(resp)
    IN  IF img.raised THEN Raised(Err("decode", call.pos))
        ELSE IF ~img.found
        THEN Outcome(FALSE, FALSE, NoPath, "", FALSE, Err("no_image_found", call.pos), NoIndex)
        ELSE IF fault = "decode" THEN Raised(Err("decode", call.pos))
        ELSE IF SourceFormat(img.mime) # file_format /\ fault = "convert"
             THEN Raised(Err("convert", call.pos))
        ELSE IF fault = "save" THEN Raised(Err("save", call.pos))
        ELSE Outcome(FALSE, TRUE, FilePath(index), call.model_used,
                     call.used_fallback, NoError,
                     IF carry_index THEN index ELSE NoIndex)

\* The try block of _generate_single_image / generate_step, entered when the
\* call has returned or raised.
TryBlock(call, resp, file_format, index, carry_index, fault) ==
    IF call.state = "raised" THEN Raised(call.error)
    ELSE AfterCall(call, resp, file_format, index, carry_index, fault)

\* (mutant) no except clause: the exception leaves the attempt
ExceptClauseMissing(outcome, index, carry_index) == outcome

\* except Exception as e: return {"success": False, "error": str(e)}
\* (generate_step adds "index": step_index)
ExceptClause(outcome, index, carry_index) ==
    IF outcome.raised
    THEN Outcome(FALSE, FALSE, NoPath, "", FALSE, outcome.error,
                 IF carry_index THEN index ELSE NoIndex)
    ELSE outcome

(***************************************************************************)
(* ImageGenerationResponse                                                 *)
(***************************************************************************)
\* message: which text, and the numbers it prints
Message(text, n, of) == [text |-> text, n |-> n, of |-> of]

Response(success, message, generated_files, error, model_used, used_fallback, primary_model) ==
    [success |-> success, message |-> message, generated_files |-> generated_files,
     error |-> error, model_used |-> model_used, used_fallback |-> used_fallback,
     primary_model |-> primary_model]
NoResponse == Response(FALSE, Message("", 0, 0), <<>>, NoError, "", FALSE, "")

Failed(message, error) == Response(FALSE, message, <<>>, error, "", FALSE, "")

\* What leaves the operation: a response, or (escaped) an exception.
Returned(resp) == [escaped |-> FALSE, value |-> resp]
Escaped == [escaped |-> TRUE, value |-> NoResponse]

\* (mutant) no last except clause: the exception leaves the operation
OuterExceptMissing(what, e) == Escaped

\* except Exception as e: return ImageGenerationResponse(success=False, ...,
\* error=str(e)) -- the last clause of each of the three operations
OuterExcept(what, e) == Returned(Failed(Message(what, 0, 0), e))

(***************************************************************************)
(* Windowed dispatch and aggregation                                       *)
(***************************************************************************)
\* (mutant) no upper clamp
ParallelCountUncapped(parallel) == Max(1, parallel)

\* parallel_count = min(max(1, request.parallel), 8)
ParallelCount(parallel) == Min(Max(1, parallel), MAX_PARALLEL)

\* steps = request.output_count or 4
Steps(request) ==
    IF request.output_count # 0 THEN request.output_count ELSE DEFAULT_STEPS

\* (mutant) a window starts on the last index of the window before it
WindowIndicesOverlap(i, parallel_count, n) == Max(0, i - 1)..(Min(i + parallel_count, n) - 1)

\* the attempt indices of the window that starts at i:
\* enumerate(prompts[i : i + parallel_count]) / range(i, min(i + parallel_count, steps))
WindowIndices(i, parallel_count, n) == i..(Min(i + parallel_count, n) - 1)

\* (mutant) resumes as soon as one task of the window is done
GatherFirstCompleted(window, status) == \E k \in window : status[k] = "done"

\* await asyncio.gather(*tasks) resumes when every task of the window is done
GatherDone(window, status) == \A k \in window : status[k] = "done"

\* (mutant) the results in the order the tasks finished
GatherResultsAsCompleted(first, size, results, order) ==
    LET mine == SelectSeq(order, LAMBDA k : k >= first /\ k < first + size)
    IN  [j \in 1..Len(mine) |-> results[mine[j]]]

\* ... and hands back the results in the order of the tasks, whatever the order
\* in which they finished (order: the attempts in the order they finished)
GatherResults(first, size, results, order) ==
    [j \in 1..size |-> results[first + j - 1]]

Aggregate(generated_files, first_error, model_used, used_fallback) ==
    [generated_files |-> generated_files, first_error |-> first_error,
     model_used |-> model_used, used_fallback |-> used_fallback]

\* (mutant) the append sits inside "if model_used is None"
AggregateBatchFirstOnly(agg, result) ==
    IF result.success /\ result.file_path # NoPath
    THEN IF agg.model_used = ""
         THEN Aggregate(Append(agg.generated_files, result.file_path), agg.first_error,
                        result.model_used, result.used_fallback)
         ELSE agg
    ELSE IF result.error # NoError /\ agg.first_error = NoError
         THEN [agg EXCEPT !.first_error = result.error]
         ELSE agg

\* (mutant) "and not first_error" is missing: the last error is kept
AggregateBatchLastError(agg, result) ==
    IF result.success /\ result.file_path # NoPath
    THEN Aggregate(Append(agg.generated_files, result.file_path), agg.first_error,
                   IF agg.model_used = "" THEN result.model_used ELSE agg.model_used,
                   IF agg.model_used = "" THEN result.used_fallback ELSE agg.used_fallback)
    ELSE IF result.error # NoError
         THEN [agg EXCEPT !.first_error = result.error]
         ELSE agg

\* (mutant) "if model_used is None" is missing: every success overwrites
AggregateBatchLastSuccess(agg, result) ==
    IF result.success /\ result.file_path # NoPath
    THEN Aggregate(Append(agg.generated_files, result.file_path), agg.first_error,
                   result.model_used, result.used_fallback)
    ELSE IF result.error # NoError /\ agg.first_error = NoError
         THEN [agg EXCEPT !.first_error = result.error]
         ELSE agg

\* generate_text_to_image: the body of "for result in results"
AggregateBatch(agg, result) ==
    IF result.success /\ result.file_path # NoPath
    THEN Aggregate(Append(agg.generated_files, result.file_path), agg.first_error,
                   IF agg.model_used = "" THEN result.model_used ELSE agg.model_used,
                   IF agg.model_used = "" THEN result.used_fallback ELSE agg.used_fallback)
    ELSE IF result.error # NoError /\ agg.first_error = NoError
         THEN [agg EXCEPT !.first_error = result.error]
         ELSE agg

\* (mutant) the "index" key is never found: always the default
StoryIndexDefault(result) == 0

\* idx = result.get("index", 0)
StoryIndex(result) == IF result.index # NoIndex THEN result.index ELSE 0

\* generated_files[idx] = result["file_path"]
PlaceStory(generated_files, idx, file_path) ==
    [generated_files EXCEPT ![idx + 1] = file_path]

\* generate_story_sequence: the body of "for result in results"
AggregateStory(agg, result) ==
    LET idx == StoryIndex(result)
    IN  IF result.success /\ result.file_path # NoPath
        THEN Aggregate(PlaceStory(agg.generated_files, idx, result.file_path),
                       agg.first_error,
                       IF agg.model_used = "" THEN result.model_used ELSE agg.model_used,
                       IF agg.model_used = "" THEN result.used_fallback ELSE agg.used_fallback)
        ELSE IF result.error # NoError /\ agg.first_error = NoError
             THEN [agg EXCEPT !.first_error = result.error]
             ELSE agg

RECURSIVE AggregateAll(_, _, _)
AggregateAll(story, agg, results) ==
    IF results = <<>> THEN agg
    ELSE AggregateAll(story,
                      IF story THEN AggregateStory(agg, Head(results))
                      ELSE AggregateBatch(agg, Head(results)),
                      Tail(results))

\* completed_files = [f for f in generated_files if f is not None]
CompletedFiles(generated_files) == SelectSeq(generated_files, LAMBDA f : f # NoPath)

\* (mutant) primary_model is filled in whether or not a fallback was used
BatchResponsePrimaryAlways(agg, model_name) ==
    IF agg.generated_files = <<>>
    THEN Failed(Message("Failed to generate any images", 0, 0),
                IF agg.first_error # NoError THEN agg.first_error
                ELSE Err("No image data found in API responses", 0))
    ELSE Response(TRUE,
                  Message("Successfully generated n image variation(s)",
                          Len(agg.generated_files), 0),
                  agg.generated_files, NoError, agg.model_used, agg.used_fallback,
                  model_name)

\* generate_text_to_image after the loop
BatchResponse(agg, model_name) ==
    IF agg.generated_files = <<>>
    THEN Failed(Message("Failed to generate any images", 0, 0),
                IF agg.first_error # NoError THEN agg.first_error
                ELSE Err("No image data found in API responses", 0))
    ELSE Response(TRUE,
                  Message("Successfully generated n image variation(s)",
                          Len(agg.generated_files), 0),
                  agg.generated_files, NoError, agg.model_used, agg.used_fallback,
                  IF agg.used_fallback THEN model_name ELSE "")

\* generate_story_sequence after the loop
StoryResponse(agg, steps, model_name) ==
    LET completed_files == CompletedFiles(agg.generated_files)
    IN  IF completed_files = <<>>
        THEN Failed(Message("Failed to generate any story sequence images", 0, 0),
                    IF agg.first_error # NoError THEN agg.first_error
                    ELSE Err("No image data found", 0))
        ELSE Response(TRUE,
                      IF Len(completed_files) = steps
                      THEN Message("Successfully generated complete n-step sequence", steps, steps)
                      ELSE Message("Generated n out of m requested steps",
                                   Len(completed_files), steps),
                      completed_files, NoError, agg.model_used, agg.used_fallback,
                      IF agg.used_fallback THEN model_name ELSE "")

\* edit_image after _call_gemini_api: outcome is what the try block made of it
EditResponse(outcome, model_name) ==
    IF outcome.raised THEN OuterExcept("Failed to edit image", outcome.error)
    ELSE IF ~outcome.success
         THEN Returned(Failed(Message("Failed to edit image", 0, 0),
                              Err("No image data in response", outcome.error.at)))
    ELSE Returned(Response(TRUE, Message("Successfully edited image", 1, 1),
                           <<outcome.file_path>>, NoError, outcome.model_used,
                           outcome.used_fallback,
                           IF outcome.used_fallback THEN model_name ELSE ""))

(***************************************************************************)
(* Request-level validation: the code of the three operations before the   *)
(* first backend call.  reference_images is the list of the cited files,   *)
(* each "ok", "missing" (find_input_file finds nothing) or "unreadable"    *)
(* (read_image_as_base64 raises); input_image is "none" or one of these.   *)
(* dir_ok: get_output_directory can create the output directory.           *)
(* Result: ok (go on to dispatch) or the value the operation ends with.    *)
(***************************************************************************)
Proceed == [ok |-> TRUE, end |-> Returned(NoResponse)]
EndWith(end) == [ok |-> FALSE, end |-> end]

\* (mutant) a cited file that cannot be found is passed over
LoadReferencesAllFound(refs, k, what) == Proceed

RECURSIVE LoadReferences(_, _, _)
LoadReferences(refs, k, what) ==
    IF k > Len(refs) THEN Proceed
    ELSE IF refs[k] = "missing"
         THEN EndWith(Returned(Failed(Message("Reference image not found", k, 0),
                                      Err("Searched in", k))))
    ELSE IF refs[k] = "unreadable" THEN EndWith(OuterExcept(what, Err("read", k)))
    ELSE LoadReferences(refs, k + 1, what)

\* (mutant) the append stands after the loop: only the last file is kept
ReferenceImagesDataLastOnly(refs, k) ==
    IF refs # <<>> /\ \A r \in 1..Len(refs) : refs[r] = "ok"
    THEN <<[data |-> Len(refs)]>>
    ELSE <<>>

\* reference_images_data as the loop over request.reference_images leaves
\* it, from the k-th cited file on: one payload per file read, data being
\* the content of that file; the loop ends at a file that is not found or
\* cannot be read
RECURSIVE ReferenceImagesData(_, _)
ReferenceImagesData(refs, k) ==
    IF k > Len(refs) \/ refs[k] # "ok" THEN <<>>
    ELSE <<[data |-> k]>> \o ReferenceImagesData(refs, k + 1)

ValidateBatch(request, dir_ok) ==
    IF ~dir_ok THEN EndWith(OuterExcept("Failed to generate image", Err("mkdir", 0)))
    ELSE IF Len(request.reference_images) > MAX_REFERENCE_IMAGES
         THEN EndWith(Returned(Failed(
                Message("Too many reference images provided", 0, 0),
                Err("Maximum 14 reference images allowed, but n were provided",
                    Len(request.reference_images)))))
    ELSE LoadReferences(request.reference_images, 1, "Failed to generate image")

ValidateStory(request, dir_ok) ==
    IF ~dir_ok THEN EndWith(OuterExcept("Failed to generate sequence", Err("mkdir", 0)))
    ELSE IF Len(request.reference_images) > MAX_REFERENCE_IMAGES
         THEN EndWith(Returned(Failed(
                Message("Too many reference images provided", 0, 0),
                Err("Maximum 14 reference images allowed", 0))))
    ELSE LoadReferences(request.reference_images, 1, "Failed to generate sequence")

\* relative: the input path is relative, so find_input_file itself calls
\* get_output_directory
ValidateEdit(request, dir_ok, relative) ==
    IF request.input_image = "none"
    THEN EndWith(Returned(Failed(Message("Input image file is required for editing", 0, 0),
                                 Err("Missing input_image parameter", 0))))
    ELSE IF relative /\ ~dir_ok
         THEN EndWith(OuterExcept("Failed to edit image", Err("mkdir", 0)))
    ELSE IF request.input_image = "missing"
         THEN EndWith(Returned(Failed(Message("Input image not found", 0, 0),
                                      Err("Searched in", 0))))
    ELSE IF ~dir_ok THEN EndWith(OuterExcept("Failed to edit image", Err("mkdir", 0)))
    ELSE IF request.input_image = "unreadable"
         THEN EndWith(OuterExcept("Failed to edit image", Err("read", 0)))
    ELSE Proceed

(***************************************************************************)
(* State                                                                   *)
(***************************************************************************)
VARIABLES
    generator,       \* the ImageGenerator: model_name, fallback_models
    backend,         \* what the world outside can do in this run: the responses
                     \* the backend gives and the faults of the local machine
    mode,            \* the operation called: "batch" (generate_text_to_image),
                     \* "story" (generate_story_sequence) or "edit" (edit_image)
    request,         \* the ImageGenerationRequest
    prompts,         \* generate_text_to_image: the local prompts
    reference_images_data,  \* the local reference_images_data: one payload per
                     \* cited file that was read, in the order read
    pc,              \* where the operation is: "called", "loop" (at the head of
                     \* the window loop), "gather" (awaiting asyncio.gather),
                     \* "editing" (awaiting _call_gemini_api), "returned"
    total,           \* len(prompts) / steps
    parallel_count,  \* the local parallel_count
    i,               \* the loop variable i: first index of the current window
    attempts,        \* index -> the attempt: status, call, log, result
    doneOrder,       \* the attempt indices in the order the attempts finished
    agg,             \* generated_files, first_error, model_used, used_fallback
    response,        \* the ImageGenerationResponse returned
    propagated,      \* an exception left the operation instead
    disk,            \* the files written by save_image_buffer: path -> bytes
    server,          \* server.py: the environment, the globals _generator and
                     \* _init_error, and what the calls of get_generator did
    probe            \* a helper method called on its own, as the unit tests
                     \* do: the method, its argument and what it returned

vars == <<generator, backend, mode, request, prompts, reference_images_data, pc, total,
          parallel_count, i, attempts, doneOrder, agg, response, propagated, probe, disk,
          server>>

\* status: "idle" (no task yet), "scheduled" (task created by gather, not yet
\* run), "waiting" (a backend call is outstanding), "done".
\* log: the responses received, one per model tried, in order.
Attempt(status, call, log, result) ==
    [status |-> status, call |-> call, log |-> log, result |-> result]
NoCall == [CallWaiting(0, NoError) EXCEPT !.state = "idle"]
IdleAttempt == Attempt("idle", NoCall, <<>>, NoResult)

Status == [k \in DOMAIN attempts |-> attempts[k].status]
Results == [k \in DOMAIN attempts |-> attempts[k].result]
Window == WindowIndices(i, parallel_count, total)

\* What a direct call of a helper method left: method, the response or the
\* text it was given, and the value of _extract_image_from_response
\* (extracted) or of _is_valid_base64 (valid).
Probe(method, resp, text, extracted, valid) ==
    [method |-> method, response |-> resp, text |-> text, extracted |-> extracted,
     valid |-> valid]
NoProbe == Probe("none", RespNoCandidates, NoText, NotFound, FALSE)

(***************************************************************************)
(* Initial states                                                          *)
(***************************************************************************)
Unset == [set |-> FALSE, models |-> <<>>]
FromEnv(models) == [set |-> TRUE, models |-> models]

Generator(model_name, fallback_env) ==
    [model_name |-> model_name, fallback_env |-> fallback_env,
     fallback_models |-> FallbackModels(model_name, fallback_env)]

\* chains of length 1 and 2
SmallGenerators ==
    {Generator(DEFAULT_MODEL, Unset), Generator(DEFAULT_MODEL, FromEnv(<<"flash25">>))}
\* ... and of length 3, the primary promoted from the middle of the list
AllGenerators ==
    SmallGenerators \cup
    {Generator("pro3", Unset),
     Generator("pro3", FromEnv(<<"flash25", "pro3", "flash20exp">>))}

\* the identifiers NANOBANANA_MODEL and NANOBANANA_FALLBACK_MODELS are drawn from
Models == {"flash25", "flash20exp", "pro3"}

\* the lists over S of length up to n
SeqsUpTo(S, n) == UNION {[1..m -> S] : m \in 0..n}

\* every primary model with every fallback list: the variable unset (or empty),
\* or holding a list of up to MaxFallbacks identifiers, repeated ones and the
\* empty list (a value such as ",") included
ChainGenerators ==
    {Generator(m, env) : m \in Models,
                         env \in {Unset} \cup {FromEnv(l) : l \in SeqsUpTo(Models, MaxFallbacks)}}

\* n characters of base64 of which the last pads are "="
Base64Text(n, pads) ==
    SelectSeq(<<Run("A", n - pads), Run("=", pads)>>, LAMBDA r : r.n > 0)

\* the text with its character at position pos (1-based) replaced by ch
RECURSIVE ReplaceAt(_, _, _)
ReplaceAt(text, pos, ch) ==
    IF text = <<>> THEN <<>>
    ELSE IF pos > Head(text).n
         THEN <<Head(text)>> \o ReplaceAt(Tail(text), pos - Head(text).n, ch)
    ELSE SelectSeq(<<Run(Head(text).ch, pos - 1), Run(ch, 1),
                     Run(Head(text).ch, Head(text).n - pos)>>,
                   LAMBDA r : r.n > 0) \o Tail(text)

\* lengths around the limit of the text heuristic, and well above it
TextLengths == {1, 2, MIN_TEXT_LENGTH, MIN_TEXT_LENGTH + 1, TextLen(LongBase64)}

\* the empty string; base64 with 0 to 2 characters of padding; and the long
\* one with one character, at any position, replaced by one outside the
\* alphabet
TextInputs ==
    {NoText}
    \cup {Base64Text(n, p) : n \in TextLengths, p \in 0..1}
    \cup {Base64Text(n, 2) : n \in TextLengths \ {1}}
    \cup UNION {{ReplaceAt(Base64Text(TextLen(LongBase64), p), pos, ch) :
                    pos \in 1..TextLen(LongBase64), ch \in {"!", "\n"}} : p \in 0..2}

\* the response bodies _extract_image_from_response is tried on
ExtractInputs ==
    {r \in AllResponses : r.kind = "http" /\ r.json}
    \cup {Http(200, TRUE, 1, <<InlinePart("empty"), InlinePart("image/png")>>),
          Http(200, TRUE, 1, <<TextPart(PlainText), InlinePart("image/jpeg"),
                               InlinePart("image/png")>>),
          Http(200, TRUE, 1, <<>>)}
    \cup {Http(200, TRUE, 1, <<TextPart(t)>>) : t \in TextInputs}

\* every setting of the four credential variables: unset, or one of two keys
ApiKeys == {"", "key-a", "key-b"}
AuthEnvs == [{AUTH_VARIABLES[k].env_var : k \in 1..Len(AUTH_VARIABLES)} -> ApiKeys]

\* NANOBANANA_OUTPUT_DIR (unset or a directory), the working directory, and
\* the directories that exist before the call
OutputDirSettings == {"", "/srv/out"}
WorkingDirs == {"/work", "/home/u"}
ExistingDirs == SUBSET {"/srv/out", "/work/nanobanana-output"}

\* an optional keyword: v is <<>> (not given) or <<value>>
Keyword(name, v) == IF v = <<>> THEN <<>> ELSE name :> v[1]
\* the keywords tried on GenerateImageArgs
ImageArgsKeywords ==
    {Keyword("output_count", n) @@ Keyword("parallel", w) @@ Keyword("no_preview", b) :
        n \in {<<>>, <<0>>, <<1>>, <<8>>, <<9>>},
        w \in {<<>>, <<0>>, <<1>>, <<8>>, <<9>>},
        b \in {<<>>, <<TRUE>>}}

Parallels == {-1, 0, 1, 2, 9}

Request(output_count, parallel, reference_images, input_image) ==
    [prompt |-> "p", output_count |-> output_count, parallel |-> parallel,
     reference_images |-> reference_images, input_image |-> input_image,
     styles |-> <<>>, variations |-> <<>>, seed |-> <<>>, file_format |-> "jpeg"]

\* a request for _build_batch_prompts; seed: <<>> is None, <<n>> is the seed n
PromptRequest(styles, variations, output_count, seed) ==
    [Request(output_count, 1, <<>>, "none") EXCEPT
        !.styles = styles, !.variations = variations, !.seed = seed]

\* two styles; two categories of the catalog and one that is not in it
Styles == {"watercolor", "sketch"}
Variations == {"lighting", "mood", "weather"}
\* output_count below, at and above the number of styles, and not positive
OutputCounts == (-1)..(MaxStyles + 1)

PromptRequests ==
    {PromptRequest(st, va, n, seed) :
        st \in SeqsUpTo(Styles, MaxStyles), va \in SeqsUpTo(Variations, MaxVariations),
        n \in OutputCounts, seed \in {<<>>, <<12345>>}}

TooManyReferences == [k \in 1..(MAX_REFERENCE_IMAGES + 1) |-> "ok"]

BatchRequests ==
    {Request(n, p, <<>>, "none") : n \in 1..MaxCount, p \in Parallels}
    \cup {Request(1, 2, refs, "none") :
            refs \in {<<"ok">>, <<"ok", "missing">>, <<"unreadable">>, TooManyReferences}}
    \cup {Request(2, 2, <<"ok", "ok">>, "none")}
EditRequests ==
    {Request(1, 2, <<>>, f) : f \in {"none", "missing", "unreadable", "ok"}}

NumAttempts(m, req) ==
    CASE m = "batch" -> Len(BuildBatchPrompts(req))
      [] m = "story" -> Steps(req)
      [] OTHER -> 1

TypeOK ==
    /\ mode \in {"batch", "story", "edit"}
    /\ pc \in {"called", "loop", "gather", "editing", "returned"}
    /\ DOMAIN attempts \subseteq 0..(total - 1)

InitRun ==
    /\ probe = NoProbe
    /\ prompts = <<>>
    /\ reference_images_data = <<>>
    /\ disk = <<>>
    /\ server = ServerStart(NoCredentials, DEFAULT_MODEL)
    /\ pc = "called"
    /\ total = 0
    /\ parallel_count = 0
    /\ i = 0
    /\ attempts = <<>>
    /\ doneOrder = <<>>
    /\ agg = Aggregate(<<>>, NoError, "", FALSE)
    /\ response = NoResponse
    /\ propagated = FALSE

\* requests of up to MaxCount attempts, chains of up to 2 models
Init ==
    /\ generator \in SmallGenerators
    /\ backend = [responses |-> CoreResponses, faults |-> {"none", "save"}]
    /\ mode \in {"batch", "story", "edit"}
    /\ request \in IF mode = "edit" THEN EditRequests ELSE BatchRequests
    /\ NumAttempts(mode, request) * Len(generator.fallback_models) <= MaxCalls
    /\ InitRun

\* one attempt, every response shape, every fault, chains of up to 3 models
InitAttempt ==
    /\ generator \in AllGenerators
    /\ backend = [responses |-> AllResponses, faults |-> Faults]
    /\ mode \in {"batch", "story", "edit"}
    /\ request \in IF mode = "edit" THEN EditRequests ELSE {Request(1, 2, <<>>, "none")}
    /\ InitRun

\* more attempts than the widest window, a backend that always delivers
InitWide ==
    /\ generator = Generator(DEFAULT_MODEL, FromEnv(<<"flash25">>))
    /\ backend = [responses |-> {RespJpeg}, faults |-> {"none"}]
    /\ \/ mode = "batch" /\ request \in {Request(MAX_PARALLEL + 1, p, <<>>, "none") : p \in {-1, 0, 9}}
       \/ mode = "story" /\ request \in {Request(MAX_PARALLEL + 1, p, <<>>, "none") : p \in {3}}
    /\ InitRun

\* every generator the constructor can build, one attempt on each
InitChain ==
    /\ generator \in ChainGenerators
    /\ backend = [responses |-> {RespTransport, RespJpeg}, faults |-> {"none"}]
    /\ mode = "batch"
    /\ request = Request(1, 1, <<>>, "none")
    /\ InitRun

\* every request shape of _build_batch_prompts, on a backend that delivers,
\* the prompts sent one after the other
InitPrompts ==
    /\ generator = Generator(DEFAULT_MODEL, FromEnv(<<"flash25">>))
    /\ backend = [responses |-> {RespJpeg}, faults |-> {"none"}]
    /\ mode = "batch"
    /\ request \in PromptRequests
    /\ InitRun

\* a generator on which no operation is running
InitHelpers ==
    /\ generator = Generator(DEFAULT_MODEL, Unset)
    /\ backend = [responses |-> {RespJpeg}, faults |-> {"none"}]
    /\ mode = "batch"
    /\ request = Request(1, 1, <<>>, "none")
    /\ InitRun

(***************************************************************************)
(* Actions                                                                 *)
(***************************************************************************)
\* The operation runs from its call to its first await: the validation, and
\* for edit_image the first backend call.
Begin ==
    /\ pc = "called"
    /\ \E dir_ok \in BOOLEAN, relative \in BOOLEAN :
         LET v == CASE mode = "batch" -> ValidateBatch(request, dir_ok)
                    [] mode = "story" -> ValidateStory(request, dir_ok)
                    [] OTHER -> ValidateEdit(request, dir_ok, relative)
             n == NumAttempts(mode, request)
         IN  /\ prompts' = IF mode = "batch" /\ dir_ok THEN BuildBatchPrompts(request)
                           ELSE <<>>
             /\ reference_images_data' =
                    IF mode # "edit" /\ dir_ok
                       /\ Len(request.reference_images) <= MAX_REFERENCE_IMAGES
                    THEN ReferenceImagesData(request.reference_images, 1)
                    ELSE <<>>
             /\ IF ~v.ok
                THEN /\ pc' = "returned"
                     /\ response' = v.end.value
                     /\ propagated' = v.end.escaped
                     /\ UNCHANGED <<total, parallel_count, attempts, agg>>
                ELSE /\ pc' = IF mode = "edit" THEN "editing" ELSE "loop"
                     /\ total' = n
                     /\ parallel_count' = ParallelCount(request.parallel)
                     /\ attempts' = [k \in 0..(n - 1) |->
                                       IF mode = "edit"
                                       THEN Attempt("waiting", CallWaiting(1, NoError),
                                                    <<>>, NoResult)
                                       ELSE IdleAttempt]
                     /\ agg' = Aggregate(IF mode = "story" THEN [k \in 1..n |-> NoPath]
                                         ELSE <<>>,
                                         NoError, "", FALSE)
                     /\ UNCHANGED <<response, propagated>>
    /\ UNCHANGED <<server, generator, backend, mode,
                   request, i, doneOrder, probe, disk>>

\* The head of "for i in range(0, n, parallel_count)": the tasks of the next
\* window are created and handed to asyncio.gather.
StartWindow ==
    /\ pc = "loop"
    /\ i < total
    /\ attempts' = [k \in DOMAIN attempts |->
                      IF k \in Window THEN [attempts[k] EXCEPT !.status = "scheduled"]
                      ELSE attempts[k]]
    /\ pc' = "gather"
    /\ UNCHANGED <<probe, reference_images_data, disk, server, generator, backend, mode,
                   request, prompts, total, parallel_count, i,
                   doneOrder, agg, response, propagated>>

\* The event loop runs the tasks it was given in the order they were created;
\* each runs to its first await, the call to the first model of the chain.
StartAttempt(k) ==
    /\ k \in DOMAIN attempts
    /\ attempts[k].status = "scheduled"
    /\ \A j \in DOMAIN attempts : j < k => attempts[j].status # "scheduled"
    /\ attempts' = [attempts EXCEPT ![k] =
                      Attempt("waiting", CallWaiting(1, NoError), <<>>, NoResult)]
    /\ UNCHANGED <<probe, reference_images_data, disk, server, generator, backend, mode,
                   request, prompts, pc, total, parallel_count, i,
                   doneOrder, agg, response, propagated>>

\* The response to the outstanding call of attempt k arrives and the attempt
\* runs to its next await (the call to the next model) or to its end.
Respond(k, resp, fault) ==
    /\ k \in DOMAIN attempts
    /\ attempts[k].status = "waiting"
    /\ \A j \in DOMAIN attempts : attempts[j].status # "scheduled"
    /\ resp \in backend.responses
    /\ fault \in backend.faults
    /\ LET call == CallStep(generator.fallback_models, attempts[k].call, resp)
           log == Append(attempts[k].log, resp)
           tried == TryBlock(call, resp, request.file_format, k, mode = "story", fault)
       IN  /\ disk' = IF call.state = "returned" /\ tried.success
                       THEN (tried.file_path :> Saved(ExtractImage(resp), request.file_format))
                            @@ disk
                       ELSE disk
           /\ IF call.state = "waiting"
              THEN /\ attempts' = [attempts EXCEPT ![k] =
                                     Attempt("waiting", call, log, NoResult)]
                   /\ UNCHANGED <<pc, doneOrder, response, propagated>>
              ELSE IF mode = "edit"
              THEN LET end == EditResponse(tried, generator.model_name)
                   IN  /\ attempts' = [attempts EXCEPT ![k] = Attempt("done", call, log, tried)]
                       /\ doneOrder' = Append(doneOrder, k)
                       /\ pc' = "returned"
                       /\ response' = end.value
                       /\ propagated' = end.escaped
              ELSE /\ attempts' = [attempts EXCEPT ![k] =
                                     Attempt("done", call, log,
                                             ExceptClause(tried, k, mode = "story"))]
                   /\ doneOrder' = Append(doneOrder, k)
                   /\ UNCHANGED <<pc, response, propagated>>
    /\ UNCHANGED <<probe, reference_images_data, server, generator, backend, mode,
                   request, prompts,
                   total, parallel_count, i, agg>>

\* asyncio.gather resumes the operation: an exception of a task is raised
\* into the operation (and ends it in its last except clause), otherwise the
\* results are aggregated and the loop goes on to the next window.
Gathered ==
    /\ pc = "gather"
    /\ GatherDone(Window, Status)
    /\ LET results == GatherResults(i, Cardinality(Window), Results, doneOrder)
           raised == {j \in 1..Len(results) : results[j].raised}
       IN  IF raised # {}
           THEN LET end == OuterExcept(IF mode = "story" THEN "Failed to generate sequence"
                                       ELSE "Failed to generate image",
                                       results[CHOOSE j \in raised : \A l \in raised : j <= l].error)
                IN  /\ pc' = "returned"
                    /\ response' = end.value
                    /\ propagated' = end.escaped
                    /\ UNCHANGED <<agg, i>>
           ELSE /\ agg' = AggregateAll(mode = "story", agg, results)
                /\ i' = i + parallel_count
                /\ pc' = "loop"
                /\ UNCHANGED <<response, propagated>>
    /\ UNCHANGED <<probe, reference_images_data, disk, server, generator, backend, mode,
                   request, prompts, total, parallel_count,
                   attempts, doneOrder>>

\* After the loop: the response is built from what was aggregated.
Finish ==
    /\ pc = "loop"
    /\ i >= total
    /\ response' = IF mode = "story"
                   THEN StoryResponse(agg, total, generator.model_name)
                   ELSE BatchResponse(agg, generator.model_name)
    /\ pc' = "returned"
    /\ UNCHANGED <<probe, reference_images_data, disk, server, generator, backend, mode,
                   request, prompts, total, parallel_count, i,
                   attempts, doneOrder, agg, propagated>>

Next ==
    \/ Begin
    \/ StartWindow
    \/ \E k \in DOMAIN attempts : StartAttempt(k)
    \/ \E k \in DOMAIN attempts, resp \in AllResponses, fault \in Faults : Respond(k, resp, fault)
    \/ Gathered
    \/ Finish

\* generator._extract_image_from_response(resp), called on its own
ExtractCall(resp) ==
    /\ probe = NoProbe
    /\ pc = "called"
    /\ probe' = Probe("_extract_image_from_response", resp, NoText, ExtractImage(resp), FALSE)
    /\ UNCHANGED <<reference_images_data, disk, server, generator, backend, mode,
                   request, prompts, pc, total, parallel_count,
                   i, attempts, doneOrder, agg, response, propagated>>

\* generator._is_valid_base64(text), called on its own
IsValidCall(text) ==
    /\ probe = NoProbe
    /\ pc = "called"
    /\ probe' = Probe("_is_valid_base64", RespNoCandidates, text, NotFound, IsValidBase64(text))
    /\ UNCHANGED <<reference_images_data, disk, server, generator, backend, mode,
                   request, prompts, pc, total, parallel_count,
                   i, attempts, doneOrder, agg, response, propagated>>

\* the helper methods, one call in a behaviour
NextHelpers ==
    \/ \E resp \in ExtractInputs : ExtractCall(resp)
    \/ \E text \in TextInputs : IsValidCall(text)

\* ImageGenerator() without an auth_config: validate_authentication() first
AuthCall(env) ==
    /\ probe = NoProbe
    /\ pc = "called"
    /\ LET auth == ValidateAuthentication(env)
       IN  probe' = [method |-> "validate_authentication", env |-> env, auth |-> auth,
                     constructed |-> ~auth.raised]
    /\ UNCHANGED <<reference_images_data, disk, server, generator, backend, mode,
                   request, prompts, pc, total, parallel_count,
                   i, attempts, doneOrder, agg, response, propagated>>

\* get_output_directory(); dir_ok: a directory that is missing can be made
OutputDirCall(output_dir, cwd, existing, dir_ok) ==
    /\ probe = NoProbe
    /\ pc = "called"
    /\ LET path == GetOutputDirectory(output_dir, cwd)
           raised == path \notin existing /\ ~dir_ok
       IN  probe' = [method |-> "get_output_directory", output_dir |-> output_dir,
                     cwd |-> cwd, raised |-> raised, path |-> path,
                     directories |-> IF raised THEN existing ELSE existing \cup {path}]
    /\ UNCHANGED <<reference_images_data, disk, server, generator, backend, mode,
                   request, prompts, pc, total, parallel_count,
                   i, attempts, doneOrder, agg, response, propagated>>

\* GenerateImageArgs(prompt="test", **kwargs)
ImageArgsCall(kwargs) ==
    /\ probe = NoProbe
    /\ pc = "called"
    /\ probe' = [method |-> "GenerateImageArgs", kwargs |-> kwargs,
                 built |-> GenerateImageArgs(kwargs)]
    /\ UNCHANGED <<reference_images_data, disk, server, generator, backend, mode,
                   request, prompts, pc, total, parallel_count,
                   i, attempts, doneOrder, agg, response, propagated>>

\* _call_gemini_api on a backend whose first tried - 1 models fail: the
\* request bodies it builds, one per pass of the loop, in the order sent
BodiesCall(gen, tried, resolution, aspect_ratio, seed) ==
    /\ probe = NoProbe
    /\ pc = "called"
    /\ tried \in 1..Len(gen.fallback_models)
    /\ probe' = [method |-> "_call_gemini_api", models |-> gen.fallback_models,
                 resolution |-> resolution, aspect_ratio |-> aspect_ratio, seed |-> seed,
                 bodies |-> [p \in 1..tried |->
                               BuildRequestBody(gen.fallback_models[p], resolution,
                                                aspect_ratio, seed)]]
    /\ UNCHANGED <<reference_images_data, disk, server, generator, backend, mode,
                   request, prompts, pc, total, parallel_count,
                   i, attempts, doneOrder, agg, response, propagated>>

\* the functions that read the configuration or check arguments, one call in
\* a behaviour
NextConfig ==
    \/ \E env \in AuthEnvs : AuthCall(env)
    \/ \E output_dir \in OutputDirSettings, cwd \in WorkingDirs,
          existing \in ExistingDirs, dir_ok \in BOOLEAN :
            OutputDirCall(output_dir, cwd, existing, dir_ok)
    \/ \E kwargs \in ImageArgsKeywords : ImageArgsCall(kwargs)
    \/ \E gen \in AllGenerators, tried \in 1..(MaxFallbacks + 1),
          resolution \in {"", "1K", "4K"}, aspect_ratio \in {"", "16:9"},
          seed \in {<<>>, <<0>>, <<12345>>} :
            BodiesCall(gen, tried, resolution, aspect_ratio, seed)

\* the environment of the server changes: a credential variable is set or
\* unset, or another primary model is named
SetCredential(name, value) ==
    /\ server.env.auth[name] # value
    /\ server' = [server EXCEPT !.env.auth[name] = value]
    /\ UNCHANGED <<probe, reference_images_data, disk, generator, backend, mode, request,
                   prompts, pc, total, parallel_count, i, attempts, doneOrder, agg,
                   response, propagated>>

SetModel(model_name) ==
    /\ server.env.model # model_name
    /\ server' = [server EXCEPT !.env.model = model_name]
    /\ UNCHANGED <<probe, reference_images_data, disk, generator, backend, mode, request,
                   prompts, pc, total, parallel_count, i, attempts, doneOrder, agg,
                   response, propagated>>

\* a tool of the server calls get_generator()
GetGeneratorCall ==
    /\ server.calls < MaxServerCalls
    /\ server' = GetGenerator(server)
    /\ UNCHANGED <<probe, reference_images_data, disk, generator, backend, mode, request,
                   prompts, pc, total, parallel_count, i, attempts, doneOrder, agg,
                   response, propagated>>

NextServer ==
    \/ \E name \in DOMAIN NoCredentials, value \in {"", "key-a"} : SetCredential(name, value)
    \/ \E model_name \in {DEFAULT_MODEL, "pro3"} : SetModel(model_name)
    \/ GetGeneratorCall


\* the file names of one request whose attempts all save an image:
\* generate_text_to_image over its prompts, generate_story_sequence over its
\* steps, each attempt at its own time
FilenamesCall(operation, req, story_type, timestamps) ==
    /\ probe = NoProbe
    /\ pc = "called"
    /\ LET styled == [k \in 1..Len(req.styles) |->
                        req.prompt \o <<",", " ">> \o req.styles[k]
                            \o <<" ", "s", "t", "y", "l", "e">>]
           limited == LimitPrompts(FillPrompts(styled, req.prompt, req.output_count),
                                   req.output_count)
           texts == IF limited # <<>> THEN limited ELSE <<req.prompt>>
           steps == IF req.output_count # 0 THEN req.output_count ELSE 4
           filenames ==
               IF operation = "batch"
               THEN [k \in 1..Len(texts) |->
                       SingleImageFilename(req, texts[k], k - 1,
                                           req.filename # <<>> /\ Len(texts) > 1,
                                           timestamps[k])]
               ELSE [k \in 1..steps |->
                       StepFilename(req, story_type, k - 1,
                                    req.filename # <<>> /\ steps > 1, timestamps[k])]
       IN  probe' = [method |-> "generate_filename", operation |-> operation,
                     request |-> req, story_type |-> story_type,
                     timestamps |-> timestamps, filenames |-> filenames]
    /\ UNCHANGED <<reference_images_data, disk, server, generator, backend, mode,
                   request, prompts, pc, total, parallel_count,
                   i, attempts, doneOrder, agg, response, propagated>>

NextNames ==
    \E operation \in {"batch", "story"},
       prompt \in {<<"s", "u", "n", "s", "e", "t", " ", "4", "5", "1", "3", "4", "6", "5">>, <<"a", " ", "c", "a", "t", "!">>},
       styles \in {<<>>, <<<<"i", "n", "k">>, <<"o", "i", "l">>, <<"i", "n", "k">>>>},
       output_count \in 1..MaxCount,
       filename \in {<<>>, <<"o", "u", "t">>, <<"o", "u", "t", ".", "P", "N", "G">>},
       file_format \in {"png", "jpeg"},
       story_type \in {<<"s", "t", "o", "r", "y">>, [k \in 1..45 |-> "a"]},
       timestamps \in [1..MaxCount -> {"20261106_045022", "20261106_045023"}] :
        FilenamesCall(operation,
                      [prompt |-> prompt, styles |-> styles, variations |-> <<>>,
                       output_count |-> output_count, filename |-> filename,
                       file_format |-> file_format],
                      story_type, timestamps)

Spec == Init /\ [][Next]_vars

SpecAttempt == InitAttempt /\ [][Next]_vars

SpecWide == InitWide /\ [][Next]_vars

SpecChain == InitChain /\ [][Next]_vars

SpecPrompts == InitPrompts /\ [][Next]_vars

SpecHelpers == InitHelpers /\ [][NextHelpers]_vars

SpecConfig == InitHelpers /\ [][NextConfig]_vars

\* the server from its start, in whatever environment
SpecServer == InitHelpers /\ [][NextServer]_vars

\* the file names of every request shape
SpecNames == InitHelpers /\ [][NextNames]_vars

\* the operations with a loop that keeps running: the event loop runs a task
\* that is ready, every call that is outstanding is answered or times out
\* (httpx.AsyncClient(timeout=self.timeout)), and a gather whose tasks are
\* done resumes
SpecLive == Init /\ [][Next]_vars /\ WF_vars(Next)

(***************************************************************************)
(* Vocabulary of the properties                                            *)
(***************************************************************************)
chain == generator.fallback_models
Indices == DOMAIN attempts
Last(seq) == seq[Len(seq)]
Finished(k) == attempts[k].status = "done"
Succeeded(k) == Finished(k) /\ attempts[k].result.success
\* the attempt has been handed to the event loop and has not yet ended
Outstanding == {k \in Indices : attempts[k].status \in {"scheduled", "waiting"}}
\* the window an attempt index belongs to
WindowOf(k) == k \div parallel_count
\* attempt j finished before attempt k
FinishedBefore(j, k) ==
    \E a, b \in 1..Len(doneOrder) : a < b /\ doneOrder[a] = j /\ doneOrder[b] = k
\* the places of attempt k's file in a list of files
PlacesOf(files, k) == {a \in 1..Len(files) : files[a] = FilePath(k)}
\* the files are listed by increasing attempt index
IndexOrdered(files) ==
    \A a, b \in 1..Len(files) : a < b => files[a].attempt < files[b].attempt
\* the operation went through its window loop and returned
BatchReturned == pc = "returned" /\ mode # "edit" /\ total > 0
\* the first attempt, by index, that failed
FirstFailed == CHOOSE k \in Indices :
                  /\ ~attempts[k].result.success
                  /\ \A j \in Indices : j < k => attempts[j].result.success

\* generate_text_to_image has built its prompts (it has not when the output
\* directory could not be created)
PromptsBuilt ==
    /\ mode = "batch"
    /\ pc # "called"
    /\ ~(pc = "returned" /\ response.error.kind = "mkdir")
\* the base prompt with the n-th style of the request
Styled(n) == request.prompt \o ", " \o request.styles[n] \o " style"
\* what the request's styles and variations expand to, and that with the
\* repetition of the base prompt for output_count > 1
Expansion == ExpandPrompts(request)
FilledExpansion == FillPrompts(Expansion, request.prompt, request.output_count)
\* the requested variations that are categories of the catalog, in request order
KnownVariations == SelectSeq(request.variations, LAMBDA v : variation_map(v) # <<>>)
\* the prompts the variations are applied to
Bases == IF request.styles # <<>> THEN [n \in 1..Len(request.styles) |-> Styled(n)]
         ELSE <<request.prompt>>

\* the places of the parts that carry an inline image with data
InlineParts(parts) == {k \in 1..Len(parts) : parts[k].inline \notin {"none", "empty"}}
\* the response holds one part, and that a text field only
TextOnly(resp) ==
    resp.cands > 0 /\ Len(resp.parts) = 1 /\ resp.parts[1].inline = "none"
\* the runs of characters that are neither base64 characters nor "="
OutsideRuns(text) == {k \in 1..Len(text) : text[k].ch \notin {"A", "="}}
\* letters, digits, "+" and "/", then at most two "=", and nothing else
InAlphabet(text) ==
    /\ OutsideRuns(text) = {}
    /\ \A k \in 1..Len(text) : text[k].ch = "=" => (k = Len(text) /\ text[k].n <= 2)
\* exactly one character of the text is outside the alphabet
OneOutside(text) ==
    /\ Cardinality(OutsideRuns(text)) = 1
    /\ \A k \in OutsideRuns(text) : text[k].n = 1

\* no backend call has been made: no attempt has a call outstanding or answered
NoBackendCall ==
    \A k \in Indices : attempts[k].status \in {"idle", "scheduled"} /\ attempts[k].log = <<>>

(***************************************************************************)
(* C1: an attempt is served by the first model of the chain, in chain      *)
(* order, whose response carries an image, with usedFallback true exactly  *)
(* when that model is not the chain's first; so over [A,B] with A failing  *)
(* in whatever way and B delivering, the attempt succeeds with B.  Stated  *)
(* on the calls made: a call that returned did so on the first response    *)
(* with an image and names that model, and a call gives up (raises) only   *)
(* once every model of the chain has been asked.                           *)
(***************************************************************************)
C1_FirstImageModelServes ==
    \A k \in Indices :
        LET a == attempts[k]
        IN  /\ a.call.state = "returned" =>
                /\ HasImage(Last(a.log))
                /\ \A n \in 1..(Len(a.log) - 1) : ~HasImage(a.log[n])
                /\ a.call.model_used = chain[Len(a.log)]
                /\ a.call.used_fallback = (chain[Len(a.log)] # chain[1])
            /\ a.call.state = "raised" => Len(a.log) = Len(chain)

(***************************************************************************)
(* C2: when every model of the chain has been tried without success, the   *)
(* attempt fails with the error recorded for the last model tried; the     *)
(* errors of the earlier models are not in what it reports.                *)
(***************************************************************************)
C2_LastErrorReported ==
    \A k \in Indices :
        LET a == attempts[k]
        IN  (a.call.state = "raised" /\ Len(a.log) = Len(chain)) =>
                /\ a.call.error.at = Len(chain)
                /\ a.call.error.kind = ClassifyResponse(Last(a.log), Len(chain)).error.kind
                /\ Finished(k) /\ ~a.result.success /\ a.result.error = a.call.error

\* a chain of two or more models, exhausted, the earlier model having failed
\* in another way than the last
C2_Witness ==
    \E k \in Indices :
        /\ attempts[k].call.state = "raised"
        /\ attempts[k].call.error.wrapped
        /\ Len(attempts[k].log) = Len(chain)
        /\ Len(chain) >= 2
        /\ ClassifyResponse(attempts[k].log[1], 1).error.kind # attempts[k].call.error.kind

(***************************************************************************)
(* C3: story mode lists the files of the successful steps by increasing    *)
(* step index, whatever the order in which the steps of a window finished. *)
(***************************************************************************)
C3_StoryFilesInStepOrder ==
    (BatchReturned /\ mode = "story") =>
        /\ IndexOrdered(response.generated_files)
        /\ \A k \in Indices :
              Cardinality(PlacesOf(response.generated_files, k)) = IF Succeeded(k) THEN 1 ELSE 0

\* two steps of one window succeeded, the later one finishing first
C3_Witness ==
    /\ BatchReturned /\ mode = "story"
    /\ \E j, k \in Indices :
          j < k /\ Succeeded(j) /\ Succeeded(k) /\ FinishedBefore(k, j)

(***************************************************************************)
(* C4: plain batch mode, on success: generated_files has one entry per     *)
(* attempt that succeeded.                                                 *)
(***************************************************************************)
C4_BatchLengthIsSuccessCount ==
    (BatchReturned /\ mode = "batch" /\ response.success) =>
        Len(response.generated_files) = Cardinality({k \in Indices : Succeeded(k)})

\* a batch with successes (more than one) and a failure
C4_Witness ==
    /\ BatchReturned /\ mode = "batch" /\ response.success
    /\ Cardinality({k \in Indices : Succeeded(k)}) >= 2
    /\ \E k \in Indices : ~Succeeded(k)

(***************************************************************************)
(* C5, as claimed: plain batch mode appends the paths in the order the     *)
(* attempts finish: of two successful attempts of one window, the one that *)
(* finished first comes first in generated_files.                          *)
(***************************************************************************)
C5_BatchFilesInCompletionOrder ==
    (BatchReturned /\ mode = "batch") =>
        \A j, k \in Indices :
            (j < k /\ WindowOf(j) = WindowOf(k) /\ Succeeded(j) /\ Succeeded(k)
                   /\ FinishedBefore(k, j)) =>
                \E a \in PlacesOf(response.generated_files, k),
                   b \in PlacesOf(response.generated_files, j) : a < b

(***************************************************************************)
(* C5, amended: plain batch mode appends the paths of the successful       *)
(* attempts in the order the attempts were dispatched (increasing index),  *)
(* whatever the order in which they finished.                              *)
(***************************************************************************)
C5_BatchFilesInDispatchOrder ==
    (BatchReturned /\ mode = "batch") =>
        /\ IndexOrdered(response.generated_files)
        /\ \A k \in Indices : Succeeded(k) => PlacesOf(response.generated_files, k) # {}

\* two attempts of one window succeeded, the later one finishing first
C5_Witness ==
    /\ BatchReturned /\ mode = "batch"
    /\ \E j, k \in Indices :
          /\ j < k /\ WindowOf(j) = WindowOf(k)
          /\ Succeeded(j) /\ Succeeded(k) /\ FinishedBefore(k, j)

(***************************************************************************)
(* C6: no attempt of a window is started before every attempt of the       *)
(* windows before it has ended.                                            *)
(***************************************************************************)
C6_WindowsRunOneAfterAnother ==
    \A j, k \in Indices :
        (mode # "edit" /\ attempts[k].status # "idle" /\ WindowOf(j) < WindowOf(k)) =>
            Finished(j)

\* an attempt of the second window has its first call outstanding
C6_Witness ==
    /\ mode # "edit"
    /\ \E k \in Indices :
          /\ attempts[k].status = "waiting"
          /\ WindowOf(k) = 1
          /\ parallel_count >= 2

(***************************************************************************)
(* C7: at no moment are more than min(max(1, request.parallel), 8)         *)
(* attempts started and not ended, whatever integer request.parallel is;   *)
(* so never more than 8.                                                   *)
(***************************************************************************)
C7_OutstandingAtMostWidth ==
    /\ Cardinality(Outstanding) <= Min(Max(1, request.parallel), 8)
    /\ Cardinality(Outstanding) <= 8

\* request.parallel above 8, more attempts than 8, and 8 of them outstanding
C7_Witness ==
    /\ request.parallel > 8
    /\ total > 8
    /\ Cardinality({k \in Indices : attempts[k].status = "waiting"}) = 8

(***************************************************************************)
(* C8: whatever attempts fail, every attempt of the request is started and *)
(* runs to its own end.                                                    *)
(***************************************************************************)
C8_EveryAttemptRuns ==
    BatchReturned =>
        /\ Indices = 0..(total - 1)
        /\ \A k \in Indices : Finished(k) /\ Len(attempts[k].log) >= 1

\* an attempt failed by an exception, and an attempt of a later window ran
C8_Witness ==
    /\ BatchReturned
    /\ \E j, k \in Indices :
          /\ WindowOf(j) < WindowOf(k)
          /\ Finished(j) /\ attempts[j].call.state = "raised"
          /\ Finished(k)

(***************************************************************************)
(* C9: in both batch modes the result has success = true exactly when at   *)
(* least one attempt succeeded; with none, success = false and error is    *)
(* the first attempt error recorded.                                       *)
(***************************************************************************)
C9_SuccessIffSomeAttemptSucceeded ==
    BatchReturned =>
        /\ response.success = (\E k \in Indices : Succeeded(k))
        /\ (~\E k \in Indices : Succeeded(k)) =>
               response.error = attempts[FirstFailed].result.error

\* every attempt failed, the first two with different errors
C9_Witness ==
    /\ BatchReturned
    /\ ~response.success
    /\ total >= 2
    /\ attempts[0].result.error # attempts[1].result.error
    /\ attempts[1].result.error # NoError

(***************************************************************************)
(* C10: each of the three operations ends by returning one                 *)
(* ImageGenerationResponse, whatever goes wrong inside; no exception       *)
(* leaves it.                                                              *)
(***************************************************************************)
C10_AlwaysAResponse ==
    /\ ~propagated
    /\ pc = "returned" => response # NoResponse
    /\ pc # "returned" => response = NoResponse

\* an exception was raised inside the operation, and a response came back
C10_Witness ==
    /\ pc = "returned"
    /\ response.error.kind \in {"mkdir", "read", "json_decode", "save"}

(***************************************************************************)
(* C11: a request that cites more than 14 reference images is rejected     *)
(* before any backend call, and the error message states the count, in     *)
(* generate_text_to_image and in generate_story_sequence alike.  The count *)
(* printed by an error message is the number the error record carries.     *)
(* (When the output directory cannot be created the operation has already  *)
(* failed before it looks at the references.)                              *)
(***************************************************************************)
C11_TooManyReferencesRejected ==
    (mode \in {"batch", "story"}
       /\ Len(request.reference_images) > MAX_REFERENCE_IMAGES) =>
        /\ NoBackendCall
        /\ pc \in {"called", "returned"}
        /\ pc = "returned" =>
              /\ ~response.success
              /\ response.error.kind # "mkdir" =>
                    response.error.at = Len(request.reference_images)

(***************************************************************************)
(* C12: request-level validation errors end the operation before any       *)
(* dispatch: edit_image without an input image or with one that cannot be  *)
(* found, and generate_text_to_image / generate_story_sequence with a      *)
(* cited reference image that cannot be found, return a failed result and  *)
(* no backend call has been made.                                          *)
(***************************************************************************)
C12_ValidationShortCircuits ==
    (\/ mode = "edit" /\ request.input_image \in {"none", "missing"}
     \/ mode \in {"batch", "story"} /\ "missing" \in Range(request.reference_images)) =>
        /\ NoBackendCall
        /\ pc \in {"called", "returned"}
        /\ pc = "returned" => (~propagated /\ response # NoResponse /\ ~response.success)

\* a story request whose second reference image cannot be found has returned
C12_Witness ==
    /\ pc = "returned"
    /\ mode = "story"
    /\ request.reference_images = <<"ok", "missing">>
    /\ response.message.text = "Reference image not found"
    /\ NoBackendCall

(***************************************************************************)
(* C13: for every primary model P and every fallback list L (the built-in  *)
(* default, or a supplied list, the empty one included) the chain built by *)
(* the constructor is non-empty, starts with P and has at most |L| + 1     *)
(* elements.                                                               *)
(***************************************************************************)
C13_ChainStartsWithPrimary ==
    LET L == IF generator.fallback_env.set THEN generator.fallback_env.models
             ELSE DEFAULT_FALLBACK_MODELS
    IN  /\ chain # <<>>
        /\ chain[1] = generator.model_name
        /\ Len(chain) <= Len(L) + 1

\* the primary promoted from the end of a supplied list; and an attempt has
\* walked the chain built
C13_Witness ==
    /\ generator.fallback_env.set
    /\ Len(generator.fallback_env.models) = 3
    /\ generator.fallback_env.models[3] = generator.model_name
    /\ generator.fallback_env.models[1] # generator.model_name
    /\ pc = "returned"

(***************************************************************************)
(* C14: after the promotion of the primary model the chain holds the       *)
(* primary identifier exactly once, at its head, also when the supplied    *)
(* list names the primary several times.                                   *)
(***************************************************************************)
C14_PrimaryExactlyOnce ==
    /\ chain[1] = generator.model_name
    /\ Cardinality({k \in 1..Len(chain) : chain[k] = generator.model_name}) = 1

(***************************************************************************)
(* C15, as claimed: a request with K >= 1 styles and no variations yields  *)
(* exactly K prompts, the i-th being the base prompt followed by           *)
(* ", <style_i> style".                                                    *)
(***************************************************************************)
C15_OnePromptPerStyle ==
    (PromptsBuilt /\ Len(request.styles) >= 1 /\ request.variations = <<>>) =>
        /\ Len(prompts) = Len(request.styles)
        /\ \A n \in 1..Len(request.styles) : prompts[n] = Styled(n)

(***************************************************************************)
(* C15, amended: a request with K >= 1 styles and no variations yields the *)
(* K styled prompts, in the order of the style list, when output_count is  *)
(* 0 or at least K; when 1 <= output_count < K it yields the first         *)
(* output_count of them.                                                   *)
(***************************************************************************)
C15_OnePromptPerStyleUpToCount ==
    (PromptsBuilt /\ Len(request.styles) >= 1 /\ request.variations = <<>>) =>
        LET K == Len(request.styles)
            N == request.output_count
        IN  /\ (N = 0 \/ N >= K) =>
                  /\ Len(prompts) = K
                  /\ \A n \in 1..K : prompts[n] = Styled(n)
            /\ (1 <= N /\ N < K) =>
                  /\ Len(prompts) = N
                  /\ \A n \in 1..N : prompts[n] = Styled(n)

\* two styles, output_count 2: both styled prompts were sent
C15_Witness ==
    /\ PromptsBuilt /\ pc = "returned" /\ response.success
    /\ request.styles = <<"watercolor", "sketch">> /\ request.variations = <<>>
    /\ request.output_count = 2
    /\ prompts = <<"p, watercolor style", "p, sketch style">>

(***************************************************************************)
(* C16: a request without styles or variations and with output_count       *)
(* N > 1 yields N prompts, each the base prompt; the seed of the request   *)
(* makes no difference to the list.                                        *)
(***************************************************************************)
C16_BasePromptRepeated ==
    (PromptsBuilt /\ request.styles = <<>> /\ request.variations = <<>>
                  /\ request.output_count > 1) =>
        /\ Len(prompts) = request.output_count
        /\ \A n \in 1..Len(prompts) : prompts[n] = request.prompt
        /\ \A seed \in {<<>>, <<12345>>, <<0>>} :
              BuildBatchPrompts([request EXCEPT !.seed = seed]) = prompts

\* three identical prompts for a request that carries a seed
C16_Witness ==
    /\ PromptsBuilt /\ pc = "returned"
    /\ request.styles = <<>> /\ request.variations = <<>>
    /\ request.seed # <<>>
    /\ prompts = <<"p", "p", "p">>

C18_VariationsReplaceStyles ==
    PromptsBuilt =>
        LET V == Len(KnownVariations)
        IN  /\ V > 0 =>
                  /\ Len(Expansion) = Len(Bases) * V * 2
                  /\ \A b \in 1..Len(Bases), v \in 1..V, ph \in 1..2 :
                        /\ Len(variation_map(KnownVariations[v])) = 2
                        /\ Expansion[((b - 1) * V + (v - 1)) * 2 + ph] =
                              Bases[b] \o ", " \o variation_map(KnownVariations[v])[ph]
            /\ V = 0 =>
                  Expansion = [n \in 1..Len(request.styles) |-> Styled(n)]
            /\ (request.output_count = 0 /\ Expansion # <<>>) => prompts = Expansion

\* two styles and two variations, one of them unknown, nothing cut off: the
\* four prompts sent are the variation prompts
C18_Witness ==
    /\ PromptsBuilt /\ pc = "returned" /\ response.success
    /\ request.styles = <<"watercolor", "sketch">>
    /\ request.variations = <<"weather", "mood">>
    /\ request.output_count = 0
    /\ prompts = <<"p, watercolor style, cheerful mood", "p, watercolor style, dramatic mood",
                   "p, sketch style, cheerful mood", "p, sketch style, dramatic mood">>

(***************************************************************************)
(* C19: _extract_image_from_response returns the image of the first part,  *)
(* in list order, of the first candidate that carries an inline image with *)
(* data, with the mime type that part declares; and reports no image when  *)
(* the response has no candidates.                                         *)
(***************************************************************************)
C19_FirstInlineImageExtracted ==
    probe.method = "_extract_image_from_response" =>
        LET resp == probe.response
            inl == InlineParts(resp.parts)
        IN  /\ resp.cands = 0 => probe.extracted = NotFound
            /\ (resp.cands > 0 /\ inl # {}) =>
                  LET first == CHOOSE k \in inl : \A j \in inl : k <= j
                  IN  /\ probe.extracted.found
                      /\ probe.extracted.via = "inline"
                      /\ probe.extracted.mime = resp.parts[first].inline

(***************************************************************************)
(* C20: on a response whose only part is a text field of 1500 characters   *)
(* of the base64 alphabet, extraction succeeds by the text heuristic with  *)
(* mime type image/jpeg; with one character of that text, at any position, *)
(* replaced by one outside the alphabet, extraction fails, that is reports *)
(* that no image was found; a text of 1000 characters or fewer is never    *)
(* accepted; and the empty string is not valid base64.                     *)
(***************************************************************************)
C20_Base64TextHeuristic ==
    /\ (probe.method = "_extract_image_from_response" /\ TextOnly(probe.response)) =>
          LET text == probe.response.parts[1].text
          IN  /\ (TextLen(text) = 1500 /\ InAlphabet(text)) =>
                    probe.extracted = Extracted(TRUE, "image/jpeg", "text", FALSE)
              /\ (TextLen(text) = 1500 /\ OneOutside(text)) => probe.extracted = NotFound
              /\ TextLen(text) <= 1000 => probe.extracted = NotFound
    /\ (probe.method = "_is_valid_base64" /\ probe.text = NoText) => ~probe.valid

(***************************************************************************)
(* C21: validate_authentication returns the credential of the first        *)
(* variable, in the order NANOBANANA_GEMINI_API_KEY,                       *)
(* NANOBANANA_GOOGLE_API_KEY, GEMINI_API_KEY, GOOGLE_API_KEY, that has a   *)
(* non-empty value, with key_type GEMINI_API_KEY for the two Gemini        *)
(* variables and GOOGLE_API_KEY for the two Google ones; when none is set  *)
(* it raises and no generator is constructed.                              *)
(***************************************************************************)
C21_HighestPriorityCredential ==
    probe.method = "validate_authentication" =>
        LET order == <<"NANOBANANA_GEMINI_API_KEY", "NANOBANANA_GOOGLE_API_KEY",
                       "GEMINI_API_KEY", "GOOGLE_API_KEY">>
            present == {k \in 1..4 : probe.env[order[k]] # ""}
        IN  IF present = {}
            THEN probe.auth.raised /\ ~probe.constructed
            ELSE LET first == CHOOSE k \in present : \A j \in present : k <= j
                 IN  /\ ~probe.auth.raised
                     /\ probe.constructed
                     /\ probe.auth.api_key = probe.env[order[first]]
                     /\ probe.auth.key_type = IF first \in {1, 3} THEN "GEMINI_API_KEY"
                                              ELSE "GOOGLE_API_KEY"

\* the first variable unset, the second and the third set to different keys
C21_Witness ==
    /\ probe.method = "validate_authentication"
    /\ probe.env["NANOBANANA_GEMINI_API_KEY"] = ""
    /\ probe.env["NANOBANANA_GOOGLE_API_KEY"] = "key-a"
    /\ probe.env["GEMINI_API_KEY"] = "key-b"
    /\ probe.auth = AuthConfig("key-a", "GOOGLE_API_KEY")

(***************************************************************************)
(* C22: in story mode the number of steps for which attempts are created   *)
(* is at least 2 and at most 8; a step count outside that range (1 or 9,   *)
(* say) is rejected, so no attempt is created for it.                      *)
(***************************************************************************)
C22_StoryStepsInRange ==
    mode = "story" /\ DOMAIN attempts # {} =>
        Cardinality(DOMAIN attempts) >= 2 /\ Cardinality(DOMAIN attempts) <= 8

(***************************************************************************)
(* C23: GenerateImageArgs has a field parallel whose default is 2 and a    *)
(* field no_preview whose default is False; parallel is validated to       *)
(* 1..8: with parallel=8 the construction succeeds and parallel is 8, with *)
(* parallel=9 it is rejected with a validation error.                      *)
(***************************************************************************)
C23_ParallelFieldValidated ==
    probe.method = "GenerateImageArgs" =>
        LET given(f) == f \in DOMAIN probe.kwargs
            has(f, v) == /\ ~probe.built.raised
                         /\ f \in DOMAIN probe.built.args
                         /\ probe.built.args[f] = v
            count_ok == ~given("output_count") \/ probe.kwargs["output_count"] \in 1..8
        IN  /\ given("parallel") /\ probe.kwargs["parallel"] \notin 1..8 => probe.built.raised
            /\ count_ok /\ given("parallel") /\ probe.kwargs["parallel"] \in 1..8 =>
                    has("parallel", probe.kwargs["parallel"])
            /\ count_ok /\ ~given("parallel") => has("parallel", 2)
            /\ count_ok /\ ~given("no_preview") /\ ~probe.built.raised =>
                    has("no_preview", FALSE)

(***************************************************************************)
(* C24: with NANOBANANA_OUTPUT_DIR unset, get_output_directory returns the *)
(* current working directory itself; with the variable set, it returns     *)
(* that directory, which exists after the call.                            *)
(***************************************************************************)
C24_OutputDirectory ==
    probe.method = "get_output_directory" /\ ~probe.raised =>
        IF probe.output_dir = ""
        THEN probe.path = probe.cwd
        ELSE probe.path = probe.output_dir /\ probe.output_dir \in probe.directories

(***************************************************************************)
(* C25: within one attempt a transport error or a timeout of the call to   *)
(* the model at chain position p is never fatal: it is recorded as the     *)
(* last error and the model at position p+1 is called next; when p is the  *)
(* last position the attempt fails as exhausted, reporting that error.     *)
(***************************************************************************)
C25_TransportErrorAdvances ==
    \A k \in Indices :
        LET a == attempts[k]
        IN  \A p \in 1..Len(a.log) :
                a.log[p].kind \in {"transport", "timeout"} =>
                    IF p < Len(chain)
                    THEN \/ Len(a.log) > p
                         \/ /\ a.call.state = "waiting"
                            /\ a.call.pos = p + 1
                            /\ a.call.last_error = Err(a.log[p].kind, p)
                    ELSE /\ a.call.state = "raised"
                         /\ a.call.error = AllModelsFailed(Err(a.log[p].kind, p))
                         /\ Finished(k) /\ ~a.result.success
                         /\ a.result.error = a.call.error

\* the first model timed out, the second and last one could not be reached
C25_Witness ==
    \E k \in Indices :
        /\ Len(chain) = 2
        /\ Len(attempts[k].log) = 2
        /\ attempts[k].log[1].kind = "timeout"
        /\ attempts[k].log[2].kind = "transport"
        /\ attempts[k].call.error = AllModelsFailed(Err("transport", 2))

(***************************************************************************)
(* C26: within one attempt every status other than 200 returned by the     *)
(* model at chain position p makes the attempt go on to the model at       *)
(* position p+1, whether or not the body can be parsed; such a status      *)
(* never ends the attempt while untried models remain.                     *)
(***************************************************************************)
C26_ErrorStatusAdvances ==
    \A k \in Indices :
        LET a == attempts[k]
        IN  \A p \in 1..Len(a.log) :
                (a.log[p].kind = "http" /\ a.log[p].status # 200 /\ p < Len(chain)) =>
                    \/ Len(a.log) > p
                    \/ a.call.state = "waiting" /\ a.call.pos = p + 1

(***************************************************************************)
(* C27: within one attempt, whenever a model answers with status 200 but   *)
(* _extract_image_from_response finds no image in the response (no         *)
(* candidates, no parts, no inline image, or an inline image without       *)
(* data), the attempt goes on to the next model; so an attempt fails for   *)
(* lack of image data only after every model of the chain has been tried.  *)
(***************************************************************************)
C27_NoImageAdvances ==
    \A k \in Indices :
        LET a == attempts[k]
        IN  \A p \in 1..Len(a.log) :
                (/\ a.log[p].kind = "http" /\ a.log[p].status = 200 /\ a.log[p].json
                 /\ ExtractImage(a.log[p]) = NotFound
                 /\ p < Len(chain)) =>
                    \/ Len(a.log) > p
                    \/ a.call.state = "waiting" /\ a.call.pos = p + 1

(***************************************************************************)
(* C28: the text heuristic of _extract_image_from_response is reached only *)
(* when no part of the response carries an inline image with data: when    *)
(* some part does, the result is an inline image, also when a part with a  *)
(* long base64-looking text stands before it in the list.                  *)
(***************************************************************************)
C28_HeuristicOnlyWithoutInline ==
    (probe.method = "_extract_image_from_response" /\ probe.response.cands > 0) =>
        /\ probe.extracted.via = "text" => InlineParts(probe.response.parts) = {}
        /\ InlineParts(probe.response.parts) # {} =>
              probe.extracted.found /\ probe.extracted.via = "inline"

(***************************************************************************)
(* C29: within one attempt the models are called strictly in chain order:  *)
(* the call outstanding is to the position after the ones that have        *)
(* answered, every answer before it was a failure, no position is called   *)
(* twice, and no model is called after a response that carries an image.   *)
(***************************************************************************)
C29_StrictChainOrder ==
    \A k \in Indices :
        LET a == attempts[k]
            image(resp) == resp.kind = "http" /\ resp.status = 200 /\ resp.json /\ HasImage(resp)
        IN  /\ Len(a.log) <= Len(chain)
            /\ a.call.state = "waiting" =>
                  a.call.pos = Len(a.log) + 1 /\ a.call.pos <= Len(chain)
            /\ a.call.state \in {"returned", "raised"} => a.call.pos = Len(a.log)
            /\ \A p \in 1..Len(a.log) :
                  image(a.log[p]) => p = Len(a.log) /\ a.call.state = "returned"

\* two models failed one after the other and the third delivered
C29_Witness ==
    \E k \in Indices :
        /\ Len(chain) = 3
        /\ Len(attempts[k].log) = 3
        /\ attempts[k].call.state = "returned"
        /\ attempts[k].call.pos = 3
        /\ attempts[k].call.model_used = chain[3]

(***************************************************************************)
(* C30: for a list of N prompts (story mode: N steps) and a width W, the   *)
(* windowed dispatch creates exactly one attempt per position 0..N-1, the  *)
(* attempt's index being the position: the attempts dispatched are always  *)
(* the positions before the end of the current window, none is skipped,    *)
(* none is dispatched a second time, and every window but the last holds   *)
(* W attempts.                                                             *)
(***************************************************************************)
C30_OneAttemptPerPosition ==
    (mode # "edit" /\ pc \in {"loop", "gather", "returned"} /\ total > 0) =>
        LET dispatched == {k \in Indices : attempts[k].status # "idle"}
            upto == IF pc = "gather" THEN i + parallel_count ELSE i
            times(k) == Cardinality({a \in 1..Len(doneOrder) : doneOrder[a] = k})
        IN  /\ total = IF mode = "story" THEN Steps(request) ELSE Len(prompts)
            /\ Indices = 0..(total - 1)
            /\ i % parallel_count = 0
            /\ dispatched = 0..(Min(upto, total) - 1)
            /\ \A k \in Indices : times(k) = IF Finished(k) THEN 1 ELSE 0
            /\ \A k \in dispatched :
                  \/ Cardinality({j \in dispatched : WindowOf(j) = WindowOf(k)}) = parallel_count
                  \/ WindowOf(k) = WindowOf(total - 1)
            /\ pc = "returned" => dispatched = Indices

\* three prompts sent two at a time: a full window, then a window of one
C30_Witness ==
    /\ mode = "batch" /\ pc = "returned"
    /\ total = 3 /\ parallel_count = 2
    /\ Len(doneOrder) = 3
    /\ \A k \in 0..2 : Finished(k)

(***************************************************************************)
(* C31: in both batch modes, when every attempt failed, the error of the   *)
(* result is the error of the attempt that finished first in time, not of  *)
(* the failed attempt with the lowest index.                               *)
(***************************************************************************)
C31_FirstCompletedErrorRetained ==
    (BatchReturned /\ ~response.success /\ Len(doneOrder) = total) =>
        response.error = attempts[doneOrder[1]].result.error

(***************************************************************************)
(* C31, amended: in both batch modes, when every attempt failed, the error *)
(* of the result is the error of the failed attempt with the lowest index, *)
(* whatever the order in which the attempts finished.                      *)
(***************************************************************************)
C31_LowestIndexErrorRetained ==
    (BatchReturned /\ ~response.success /\ Len(doneOrder) = total) =>
        \E k \in Indices :
            /\ attempts[k].result.error # NoError
            /\ \A j \in Indices : j < k => attempts[j].result.error = NoError
            /\ response.error = attempts[k].result.error

\* two attempts of one window failed with different errors, the second of
\* them first
C31_Witness ==
    /\ BatchReturned /\ ~response.success
    /\ doneOrder = <<1, 0>>
    /\ attempts[0].result.error # attempts[1].result.error
    /\ response.error = attempts[0].result.error

(***************************************************************************)
(* C32: in plain batch mode model_used and used_fallback of the result are *)
(* those of the successful attempt that finished first; primary_model is   *)
(* set exactly when used_fallback is true.                                 *)
(***************************************************************************)
C32_FirstCompletedSuccessInfo ==
    (BatchReturned /\ mode = "batch" /\ response.success) =>
        LET wins == {a \in 1..Len(doneOrder) : Succeeded(doneOrder[a])}
            first == doneOrder[CHOOSE a \in wins : \A b \in wins : a <= b]
        IN  /\ response.model_used = attempts[first].result.model_used
            /\ response.used_fallback = attempts[first].result.used_fallback
            /\ (response.primary_model # "") = response.used_fallback

(***************************************************************************)
(* C32, amended: in plain batch mode model_used and used_fallback of the   *)
(* result are those of the successful attempt with the lowest index,       *)
(* whatever the order in which the attempts finished; later successes do   *)
(* not overwrite them, and primary_model is set exactly when used_fallback *)
(* is true.                                                                *)
(***************************************************************************)
C32_LowestIndexSuccessInfo ==
    (BatchReturned /\ mode = "batch" /\ response.success) =>
        LET wins == {k \in Indices : Succeeded(k)}
            first == CHOOSE k \in wins : \A j \in wins : k <= j
        IN  /\ response.model_used = attempts[first].result.model_used
            /\ response.used_fallback = attempts[first].result.used_fallback
            /\ (response.primary_model # "") = response.used_fallback

\* the second attempt succeeded first, on the primary model; the first
\* attempt succeeded after it, on a fallback model
C32_Witness ==
    /\ BatchReturned /\ mode = "batch" /\ response.success
    /\ doneOrder = <<1, 0>>
    /\ Succeeded(0) /\ Succeeded(1)
    /\ attempts[0].result.used_fallback /\ ~attempts[1].result.used_fallback
    /\ response.used_fallback

(***************************************************************************)
(* C33: the request body built for a model carries imageSize only when     *)
(* that model is of the gemini-3 family, decided for each model of the     *)
(* chain on its own: after a fallback from such a model to another one the *)
(* body has no imageSize.  aspectRatio is in the body exactly when an      *)
(* aspect ratio was requested, and seed exactly when a seed, 0 included,   *)
(* was given.                                                              *)
(***************************************************************************)
C33_ImageSizePerModel ==
    probe.method = "_call_gemini_api" =>
        \A p \in 1..Len(probe.bodies) :
            LET config == probe.bodies[p].generationConfig
                image == IF "imageConfig" \in DOMAIN config THEN config["imageConfig"]
                         ELSE <<>>
            IN  /\ "imageSize" \in DOMAIN image =>
                      probe.models[p] = "pro3" /\ image["imageSize"] = probe.resolution
                /\ (probe.models[p] = "pro3" /\ probe.resolution # "") =>
                      "imageSize" \in DOMAIN image
                /\ ("aspectRatio" \in DOMAIN image) = (probe.aspect_ratio # "")
                /\ "aspectRatio" \in DOMAIN image =>
                      image["aspectRatio"] = probe.aspect_ratio
                /\ ("seed" \in DOMAIN config) = (probe.seed # <<>>)
                /\ "seed" \in DOMAIN config => config["seed"] = probe.seed[1]

\* the gemini-3 model failed and the next model of the chain was tried, with
\* a resolution and the seed 0
C33_Witness ==
    /\ probe.method = "_call_gemini_api"
    /\ Len(probe.bodies) >= 2
    /\ probe.models[1] = "pro3" /\ probe.models[2] # "pro3"
    /\ probe.resolution = "4K" /\ probe.seed = <<0>>
    /\ "imageConfig" \in DOMAIN probe.bodies[1].generationConfig
    /\ "imageConfig" \notin DOMAIN probe.bodies[2].generationConfig

(***************************************************************************)
(* C34: for a request with R reference images and N attempts, each cited   *)
(* file is read exactly once, all R reads come before the first backend    *)
(* call of any attempt, and the list of payloads stays as it is for every  *)
(* attempt and every model tried: as soon as an attempt has been           *)
(* dispatched, and from then on, reference_images_data holds one payload   *)
(* per cited file, the r-th being the content of the r-th file.            *)
(***************************************************************************)
C34_ReferencesReadOnceBeforeDispatch ==
    (mode # "edit" /\ \E k \in Indices : attempts[k].status # "idle") =>
        /\ Len(reference_images_data) = Len(request.reference_images)
        /\ \A r \in 1..Len(reference_images_data) : reference_images_data[r].data = r

\* two reference images, two attempts, one of which went on to the second
\* model of the chain
C34_Witness ==
    /\ mode # "edit"
    /\ Len(request.reference_images) = 2
    /\ Len(reference_images_data) = 2
    /\ total = 2
    /\ \A k \in Indices : Finished(k)
    /\ \E k \in Indices : Len(attempts[k].log) = 2

(***************************************************************************)
(* C35: when the format that the mime type of the response stands for is   *)
(* the requested file format, the bytes written to disk are the bytes      *)
(* extracted from the response, not decoded and encoded again; the image   *)
(* is encoded again only when the two formats differ.                      *)
(***************************************************************************)
C35_SameFormatPassesThrough ==
    \A k \in Indices :
        Succeeded(k) =>
            LET img == ExtractImage(Last(attempts[k].log))
                implied == IF img.mime = "image/png" THEN "png" ELSE "jpeg"
                path == attempts[k].result.file_path
            IN  /\ path \in DOMAIN disk
                /\ implied = request.file_format =>
                      disk[path] = [encoded_as |-> implied, passes |-> 0]
                /\ implied # request.file_format =>
                      disk[path] = [encoded_as |-> request.file_format, passes |-> 1]

\* a jpeg was asked for and delivered as such
C35_Witness ==
    \E k \in Indices :
        /\ Succeeded(k)
        /\ request.file_format = "jpeg"
        /\ Last(attempts[k].log) = RespJpeg
        /\ disk[attempts[k].result.file_path].passes = 0

(***************************************************************************)
(* C36: in both batch modes a batch of N attempts of which k succeeded,    *)
(* 0 < k, returns success = true; its message says that the batch is       *)
(* complete only when k = N, and otherwise marks it as partial: k out of   *)
(* N.                                                                      *)
(***************************************************************************)
C36_PartialCompletionReported ==
    (BatchReturned /\ \E k \in Indices : Succeeded(k)) =>
        LET done == Cardinality({k \in Indices : Succeeded(k)})
        IN  /\ response.success
            /\ response.message.n = done
            /\ done < total =>
                  /\ response.message.of = total
                  /\ response.message.text = "Generated n out of m requested steps"
            /\ done = total =>
                  response.message.text # "Generated n out of m requested steps"

(***************************************************************************)
(* C37: over any sequence of calls of get_generator and changes of the     *)
(* environment, at most one of _generator and _init_error is set; once     *)
(* _init_error is set every later call raises that error and no generator  *)
(* is created, also after a credential has become available; once          *)
(* _generator is set every later call returns that instance, whose         *)
(* credential and fallback chain stay as they were.                        *)
(***************************************************************************)
C37_GeneratorOrErrorForGood ==
    [][/\ ~(server'.generator # NoGenerator /\ server'.init_error # "")
       /\ server.init_error # "" =>
             /\ server'.init_error = server.init_error
             /\ server'.generator = NoGenerator
             /\ server'.created = server.created
             /\ server'.calls > server.calls =>
                   server'.last.raised /\ server'.last.error = server.init_error
       /\ server.generator # NoGenerator =>
             /\ server'.generator = server.generator
             /\ server'.init_error = ""
             /\ server'.created = server.created
             /\ server'.calls > server.calls =>
                   ~server'.last.raised /\ server'.last.generator = server.generator]_vars

\* the first call found no credential; one was set afterwards and the next
\* call raised all the same
C37_Witness ==
    /\ server.init_error # ""
    /\ server.calls >= 2
    /\ \E name \in DOMAIN server.env.auth : server.env.auth[name] # ""
    /\ server.last.raised
    /\ server.created = 0

(***************************************************************************)
(* C38: every ImageGenerationResponse that one of the three operations     *)
(* returns has: with success, files and no error; without success, no      *)
(* files and an error; used_fallback only with a model_used that is not    *)
(* the configured primary model; and primary_model set exactly when        *)
(* used_fallback is true.                                                  *)
(***************************************************************************)
C38_ResponseWellFormed ==
    (pc = "returned" /\ ~propagated) =>
        /\ response.success =>
              response.generated_files # <<>> /\ response.error = NoError
        /\ ~response.success =>
              response.generated_files = <<>> /\ response.error # NoError
        /\ response.used_fallback =>
              response.model_used # "" /\ response.model_used # generator.model_name
        /\ (response.primary_model # "") = response.used_fallback

\* a batch served by a fallback model
C38_Witness ==
    /\ pc = "returned" /\ mode = "batch"
    /\ response.success
    /\ response.used_fallback
    /\ response.primary_model = generator.model_name
    /\ response.model_used = generator.fallback_models[2]

\* C39: within one request that does not use filename_suffixes no two
\* attempts write to the same output path: the file names of distinct attempt
\* indices are pairwise distinct, with or without a custom filename, for
\* identical or different prompts and whatever the timestamps
C39_OutputPathsDistinct ==
    probe.method = "generate_filename" =>
        \A a, b \in DOMAIN probe.filenames :
            a # b => probe.filenames[a] # probe.filenames[b]

\* the calls attempt k has made to the backend, the outstanding one included
CallsIssued(k) ==
    Len(attempts[k].log) + IF attempts[k].status = "waiting" THEN 1 ELSE 0

RECURSIVE CallsIssuedBy(_)
CallsIssuedBy(ks) ==
    IF ks = {} THEN 0
    ELSE LET k == CHOOSE j \in ks : TRUE
         IN  CallsIssued(k) + CallsIssuedBy(ks \ {k})

\* idle, scheduled, waiting, done: the life of an attempt
Stage(status) ==
    CASE status = "idle" -> 0 [] status = "scheduled" -> 1
      [] status = "waiting" -> 2 [] OTHER -> 3

\* C40: if every backend call is answered or times out, every request of N
\* attempts over a chain of C models returns its result; it makes at most C
\* calls per attempt and N*C calls in all, and no attempt and no window is
\* run again
C40_ReturnsWithinBudget ==
    /\ [](/\ \A k \in Indices : CallsIssued(k) <= Len(chain)
          /\ CallsIssuedBy(Indices) <= total * Len(chain))
    /\ [][/\ i' >= i
          /\ \A k \in Indices :
                /\ k \in DOMAIN attempts'
                /\ Stage(attempts'[k].status) >= Stage(attempts[k].status)
                /\ Len(attempts'[k].log) >= Len(attempts[k].log)
                /\ SubSeq(attempts'[k].log, 1, Len(attempts[k].log)) = attempts[k].log
                /\ Finished(k) => attempts'[k] = attempts[k]]_vars
    /\ <>(pc = "returned")

C40_Witness ==
    /\ pc = "returned" /\ mode = "batch" /\ ~propagated
    /\ total = 2 /\ Len(chain) = 2 /\ parallel_count = 1
    /\ \A k \in Indices : Finished(k) /\ CallsIssued(k) = Len(chain)
    /\ CallsIssuedBy(Indices) = total * Len(chain)

====
